---- MODULE Spec2Model ----
(***************************************************************************)
(* A model of the request dispatcher of the Rain SDK (src/src/client.rs),  *)
(* its authentication helper (src/src/auth.rs), its error type             *)
(* (src/src/error.rs), its configuration (src/src/config.rs) and the       *)
(* resource methods that call it (src/src/api/*.rs).                       *)
(*                                                                         *)
(* Texts (paths, header values, response bodies) are TLA+ strings; TLC     *)
(* evaluates Len, SubSeq and \o on them.                                   *)
(***************************************************************************)
EXTENDS Integers, Sequences, FiniteSets, TLC

(***************************************************************************)
(* Bounds of the model.                                                    *)
(***************************************************************************)
\* the longest relative path drawn for build_url, in characters
MaxPathLen == 3

\* the redirects a server answers one call with, in the model
MaxHops == 1

\* the calls in progress at once on one client (SpecConc)
NumTasks == 2

(***************************************************************************)
(* Results: Rust's Result<T, RainError>.                                   *)
(***************************************************************************)
Ok(v) == [ok |-> TRUE, value |-> v]

Err(e) == [ok |-> FALSE, err |-> e]

\* RainError::Other(anyhow!(msg))
Other(msg) == [kind |-> "Other", msg |-> msg]

\* RainError::ValidationError(msg)
ValidationError(msg) == [kind |-> "ValidationError", msg |-> msg]

\* RainError::DeserializationError(serde_json::Error)
DeserializationError == [kind |-> "DeserializationError"]

\* RainError::HttpError(reqwest::Error); what: "builder", "connect", "body"
HttpError(what) == [kind |-> "HttpError", what |-> what]

\* RainError::ApiError { status, response }
ApiError(status, response) ==
    [kind |-> "ApiError", status |-> status, response |-> response]

(***************************************************************************)
(* Strings.                                                                *)
(***************************************************************************)
CharAt(s, i) == SubSeq(s, i, i)

\* str::strip_prefix('/').unwrap_or(path)
Last(seq) == seq[Len(seq)]

StripLeadingSlash(path) ==
    IF Len(path) > 0 /\ CharAt(path, 1) = "/" THEN SubSeq(path, 2, Len(path)) ELSE path

\* str::split(sep): the pieces between the separators, empty pieces included
Split(s, sep) ==
    LET at == {i \in 1..Len(s) : CharAt(s, i) = sep}
        n == Cardinality(at)
        \* the k-th separator; 0 before the first, Len(s) + 1 after the last
        pos(k) == IF k = 0 THEN 0
                  ELSE IF k = n + 1 THEN Len(s) + 1
                  ELSE CHOOSE i \in at : Cardinality({j \in at : j < i}) = k - 1
    IN  [k \in 1..(n + 1) |-> SubSeq(s, pos(k - 1) + 1, pos(k) - 1)]

\* Iterator::filter(|s| !s.is_empty())
RECURSIVE FilterNonEmpty(_)
FilterNonEmpty(segs) ==
    IF segs = <<>> THEN <<>>
    ELSE IF Head(segs) = "" THEN FilterNonEmpty(Tail(segs))
    ELSE <<Head(segs)>> \o FilterNonEmpty(Tail(segs))

\* [T]::join(sep) on strings
RECURSIVE Join(_, _)
Join(parts, sep) ==
    IF parts = <<>> THEN ""
    ELSE IF Len(parts) = 1 THEN parts[1]
    ELSE parts[1] \o sep \o Join(Tail(parts), sep)

(***************************************************************************)
(* url::Url, as far as the client uses it: scheme and host, the path as    *)
(* its list of segments ("/" is the one empty segment), the query, and     *)
(* whether the URL cannot be a base (mailto:, data:).                      *)
(***************************************************************************)
NoQuery == "<none>"

MkUrl(scheme, host, segments) ==
    [scheme |-> scheme, host |-> host, segments |-> segments,
     query |-> NoQuery, cannot_be_a_base |-> FALSE]

\* Url::parse("mailto:ops@example.com"): a URL that cannot take path segments
MailtoUrl ==
    [scheme |-> "mailto", host |-> "", segments |-> <<"ops@example.com">>,
     query |-> NoQuery, cannot_be_a_base |-> TRUE]

\* the percent-encoding PathSegmentsMut applies to one character of a segment
\* (the path-segment encode set: the path set plus '/' and '%')
EncodeSegmentChar(c) ==
    CASE c = "?" -> "%3F"
      [] c = "#" -> "%23"
      [] c = "%" -> "%25"
      [] c = " " -> "%20"
      [] c = "{" -> "%7B"
      [] c = "}" -> "%7D"
      [] OTHER -> c

RECURSIVE EncodeSegmentRange(_, _, _)
EncodeSegmentRange(seg, lo, hi) ==
    IF lo > hi THEN ""
    ELSE IF lo = hi THEN EncodeSegmentChar(CharAt(seg, lo))
    ELSE LET mid == (lo + hi) \div 2
         IN  EncodeSegmentRange(seg, lo, mid) \o EncodeSegmentRange(seg, mid + 1, hi)

EncodeSegment(seg) == EncodeSegmentRange(seg, 1, Len(seg))

\* PathSegmentsMut::pop_if_empty: drop the last segment when it is empty and
\* something precedes it (the path "/" is left alone)
PopIfEmpty(segments) ==
    IF Len(segments) > 1 /\ segments[Len(segments)] = ""
    THEN SubSeq(segments, 1, Len(segments) - 1)
    ELSE segments

\* PathSegmentsMut::extend: "." and ".." are skipped, every other segment is
\* percent-encoded and appended (onto the path "/" it replaces the empty segment)
RECURSIVE ExtendSegments(_, _)
ExtendSegments(segments, new) ==
    IF new = <<>> THEN segments
    ELSE IF Head(new) \in {".", ".."} THEN ExtendSegments(segments, Tail(new))
    ELSE IF segments = <<"">>
    THEN ExtendSegments(<<EncodeSegment(Head(new))>>, Tail(new))
    ELSE ExtendSegments(Append(segments, EncodeSegment(Head(new))), Tail(new))

\* Url::as_str
UrlString(url) ==
    IF url.cannot_be_a_base THEN url.scheme \o ":" \o Join(url.segments, "/")
    ELSE url.scheme \o "://" \o url.host \o "/" \o Join(url.segments, "/")
         \o (IF url.query = NoQuery THEN "" ELSE "?" \o url.query)

\* a build_url that forgets to drop the empty pieces of the path
build_url_keep_empty(base_url, path) ==
    IF base_url.cannot_be_a_base THEN Err(Other("Cannot be a base URL"))
    ELSE Ok([base_url EXCEPT !.segments =
                ExtendSegments(PopIfEmpty(base_url.segments),
                               Split(StripLeadingSlash(path), "/"))])

\* a build_url that appends to every base URL, a cannot-be-a-base one too
build_url_any_base(base_url, path) ==
    Ok([base_url EXCEPT !.segments =
            ExtendSegments(PopIfEmpty(base_url.segments),
                           FilterNonEmpty(Split(StripLeadingSlash(path), "/")))])

\* RainClient::build_url
build_url(base_url, path) ==
    IF base_url.cannot_be_a_base THEN Err(Other("Cannot be a base URL"))
    ELSE Ok([base_url EXCEPT !.segments =
                ExtendSegments(PopIfEmpty(base_url.segments),
                               FilterNonEmpty(Split(StripLeadingSlash(path), "/")))])

(***************************************************************************)
(* Configuration.                                                          *)
(***************************************************************************)
\* Environment::base_url
Environment_base_url(environment) ==
    CASE environment.tag = "Dev" ->
            MkUrl("https", "api-dev.raincards.xyz", <<"v1", "issuing">>)
      [] environment.tag = "Production" ->
            MkUrl("https", "api.raincards.xyz", <<"v1", "issuing">>)
      [] environment.tag = "Custom" -> environment.url

\* the custom base URLs the model draws
CustomUrls ==
    { MkUrl("https", "api.example.com", <<"">>),
      MkUrl("https", "api.example.com", <<"v1">>),
      MkUrl("https", "api.example.com", <<"v1", "">>),
      MkUrl("https", "api.example.com", <<"v1", "", "">>),
      MkUrl("https", "api.example.com", <<"v1", "issuing", "">>),
      MailtoUrl }

Environments ==
    {[tag |-> "Dev"], [tag |-> "Production"]}
        \cup {[tag |-> "Custom", url |-> u] : u \in CustomUrls}

(***************************************************************************)
(* JSON values (serde_json::Value) and the response bodies the model       *)
(* draws. serde_json::from_str is modelled on these bodies: ParseJson      *)
(* gives the value a body parses to, or fails.                             *)
(***************************************************************************)
JNull == [kind |-> "null"]

JStr(s) == [kind |-> "string", s |-> s]

JNum(n) == [kind |-> "number", n |-> n]

JBool(b) == [kind |-> "bool", b |-> b]

JArr(items) == [kind |-> "array", items |-> items]

\* fields: a function from the keys present to their values
JObj(fields) == [kind |-> "object", fields |-> fields]

JEmptyObj == JObj(<<>>)

HasField(j, f) == j.kind = "object" /\ f \in DOMAIN j.fields

\* the ids (uuid::Uuid, printed in its hyphenated form) the model draws
Uuids == {"0a0a0a0a-0000-4000-8000-000000000001"}

UserJson ==
    JObj([id |-> JStr("0a0a0a0a-0000-4000-8000-000000000001"),
          firstName |-> JStr("Ada"), lastName |-> JStr("Byron"),
          email |-> JStr("ada@example.com"), isActive |-> JBool(TRUE),
          isTermsOfServiceAccepted |-> JBool(TRUE)])

UserText ==
    "{\"id\":\"0a0a0a0a-0000-4000-8000-000000000001\",\"firstName\":\"Ada\","
    \o "\"lastName\":\"Byron\",\"email\":\"ada@example.com\",\"isActive\":true,"
    \o "\"isTermsOfServiceAccepted\":true}"

NotFoundText == "{\"message\":\"not found\"}"

DeniedText == "{\"message\":\"denied\",\"code\":\"E42\",\"details\":{\"field\":\"id\"}}"

NumericCodeText == "{\"message\":\"x\",\"code\":4001}"

InternalErrorText == "internal error"

\* serde_json::from_str::<Value>, on the bodies of the model; any other text
\* of the model (plain words, runs of x) is not JSON
ParseJson(text) ==
    CASE text = "null" -> Ok(JNull)
      [] text = "{}" -> Ok(JEmptyObj)
      [] text = "[]" -> Ok(JArr(<<>>))
      [] text = "42" -> Ok(JNum(42))
      [] text = UserText -> Ok(UserJson)
      [] text = "[" \o UserText \o "]" -> Ok(JArr(<<UserJson>>))
      [] text = NotFoundText -> Ok(JObj([message |-> JStr("not found")]))
      [] text = DeniedText ->
            Ok(JObj([message |-> JStr("denied"), code |-> JStr("E42"),
                     details |-> JObj([field |-> JStr("id")])]))
      [] text = NumericCodeText ->
            Ok(JObj([message |-> JStr("x"), code |-> JNum(4001)]))
      [] OTHER -> Err(DeserializationError)

(***************************************************************************)
(* Deserialize for the target types of the calls (serde's derived          *)
(* implementations on a parsed value).                                     *)
(***************************************************************************)
None == [kind |-> "None"]

Some(v) == [kind |-> "Some", v |-> v]

Unit == [kind |-> "unit"]

\* Option<String> / Option<Value> field of a struct: absent or null is None
OptionalField(j, f) ==
    IF HasField(j, f) /\ j.fields[f] # JNull THEN Some(j.fields[f]) ELSE None

\* Option<String> field of a struct
OptionalString(j, f) ==
    IF HasField(j, f) /\ j.fields[f] # JNull THEN Some(j.fields[f].s) ELSE None

\* a field that, when present and not null, must be of the given kind
OptionalFieldOk(j, f, kind) ==
    (HasField(j, f) /\ j.fields[f] # JNull) => j.fields[f].kind = kind

RequiredFieldOk(j, f, kind) == HasField(j, f) /\ j.fields[f].kind = kind

\* ApiErrorResponse (Deserialize): message and code are Option<String>,
\* details is Option<Value>; unknown fields are ignored
FromJson_ApiErrorResponse(j) ==
    IF /\ j.kind = "object"
       /\ OptionalFieldOk(j, "message", "string")
       /\ OptionalFieldOk(j, "code", "string")
    THEN Ok([message |-> OptionalString(j, "message"),
             code |-> OptionalString(j, "code"),
             details |-> OptionalField(j, "details")])
    ELSE Err(DeserializationError)

\* User (Deserialize, camelCase): six required fields, the rest optional
FromJson_User(j) ==
    IF /\ RequiredFieldOk(j, "id", "string")
       /\ j.fields["id"].s \in Uuids
       /\ RequiredFieldOk(j, "firstName", "string")
       /\ RequiredFieldOk(j, "lastName", "string")
       /\ RequiredFieldOk(j, "email", "string")
       /\ RequiredFieldOk(j, "isActive", "bool")
       /\ RequiredFieldOk(j, "isTermsOfServiceAccepted", "bool")
       /\ OptionalFieldOk(j, "companyId", "string")
       /\ OptionalFieldOk(j, "phoneNumber", "string")
    THEN Ok([id |-> j.fields["id"].s, first_name |-> j.fields["firstName"].s,
             last_name |-> j.fields["lastName"].s, email |-> j.fields["email"].s,
             is_active |-> j.fields["isActive"].b,
             is_terms_of_service_accepted |-> j.fields["isTermsOfServiceAccepted"].b,
             company_id |-> OptionalString(j, "companyId"),
             phone_number |-> OptionalString(j, "phoneNumber")])
    ELSE Err(DeserializationError)

\* UpdateUserRequest (Deserialize): every field is an Option
FromJson_UpdateUserRequest(j) ==
    IF /\ j.kind = "object"
       /\ OptionalFieldOk(j, "firstName", "string")
       /\ OptionalFieldOk(j, "lastName", "string")
       /\ OptionalFieldOk(j, "email", "string")
       /\ OptionalFieldOk(j, "isActive", "bool")
    THEN Ok([first_name |-> OptionalString(j, "firstName"),
             last_name |-> OptionalString(j, "lastName"),
             email |-> OptionalString(j, "email"),
             is_active |-> OptionalField(j, "isActive")])
    ELSE Err(DeserializationError)

\* Vec<User>
FromJson_VecUser(j) ==
    IF j.kind = "array" /\ \A i \in 1..Len(j.items) : FromJson_User(j.items[i]).ok
    THEN Ok([i \in 1..Len(j.items) |-> FromJson_User(j.items[i]).value])
    ELSE Err(DeserializationError)

\* EncryptedData (Deserialize): iv and data, both required strings
EncryptedDataOk(j) == RequiredFieldOk(j, "iv", "string") /\ RequiredFieldOk(j, "data", "string")

\* CardSecrets (Deserialize, camelCase)
FromJson_CardSecrets(j) ==
    IF /\ RequiredFieldOk(j, "encryptedPan", "object")
       /\ EncryptedDataOk(j.fields["encryptedPan"])
       /\ RequiredFieldOk(j, "encryptedCvc", "object")
       /\ EncryptedDataOk(j.fields["encryptedCvc"])
    THEN Ok([encrypted_pan |-> j.fields["encryptedPan"].fields,
             encrypted_cvc |-> j.fields["encryptedCvc"].fields])
    ELSE Err(DeserializationError)

\* CardPin (Deserialize, camelCase)
FromJson_CardPin(j) ==
    IF /\ RequiredFieldOk(j, "encryptedPin", "object")
       /\ EncryptedDataOk(j.fields["encryptedPin"])
    THEN Ok([encrypted_pin |-> j.fields["encryptedPin"].fields])
    ELSE Err(DeserializationError)

\* a required field that is a string holding a uuid
UuidFieldOk(j, f) == RequiredFieldOk(j, f, "string") /\ j.fields[f].s \in Uuids

\* a required field that is a string naming a variant of a unit enum
EnumFieldOk(j, f, names) == RequiredFieldOk(j, f, "string") /\ j.fields[f].s \in names

\* SpendTransaction (Deserialize): thirteen required fields, the rest optional
SpendTransactionOk(j) ==
    /\ RequiredFieldOk(j, "amount", "number")
    /\ RequiredFieldOk(j, "currency", "string")
    /\ RequiredFieldOk(j, "receipt", "bool")
    /\ RequiredFieldOk(j, "merchantName", "string")
    /\ RequiredFieldOk(j, "merchantCategory", "string")
    /\ RequiredFieldOk(j, "merchantCategoryCode", "string")
    /\ UuidFieldOk(j, "cardId")
    /\ EnumFieldOk(j, "cardType", {"physical", "virtual"})
    /\ UuidFieldOk(j, "userId")
    /\ RequiredFieldOk(j, "userFirstName", "string")
    /\ RequiredFieldOk(j, "userEmail", "string")
    /\ EnumFieldOk(j, "status", {"pending", "reversed", "declined", "completed"})
    /\ RequiredFieldOk(j, "authorizedAt", "string")
    /\ OptionalFieldOk(j, "localAmount", "number")
    /\ OptionalFieldOk(j, "memo", "string")
    /\ OptionalFieldOk(j, "postedAt", "string")

\* CollateralTransaction (Deserialize)
CollateralTransactionOk(j) ==
    /\ RequiredFieldOk(j, "amount", "number")
    /\ RequiredFieldOk(j, "currency", "string")
    /\ RequiredFieldOk(j, "chainId", "number")
    /\ RequiredFieldOk(j, "walletAddress", "string")
    /\ RequiredFieldOk(j, "transactionHash", "string")
    /\ OptionalFieldOk(j, "memo", "string")
    /\ OptionalFieldOk(j, "postedAt", "string")

\* PaymentTransaction (Deserialize)
PaymentTransactionOk(j) ==
    /\ RequiredFieldOk(j, "amount", "number")
    /\ RequiredFieldOk(j, "currency", "string")
    /\ EnumFieldOk(j, "status", {"pending", "completed"})
    /\ OptionalFieldOk(j, "memo", "string")
    /\ OptionalFieldOk(j, "chainId", "number")
    /\ OptionalFieldOk(j, "postedAt", "string")

\* FeeTransaction (Deserialize)
FeeTransactionOk(j) ==
    /\ RequiredFieldOk(j, "amount", "number")
    /\ OptionalFieldOk(j, "description", "string")
    /\ OptionalFieldOk(j, "postedAt", "string")

\* the decoded Transaction: its variant, its id and its amount
DecodedTransaction(variant, j) ==
    Ok([variant |-> variant, id |-> j.fields["id"].s, amount |-> j.fields["amount"].n])

\* a decoder that tries the variants in turn on the fields present, whatever
\* the value of "type"
FromJson_Transaction_by_fields(j) ==
    IF j.kind # "object" \/ ~UuidFieldOk(j, "id") THEN Err(DeserializationError)
    ELSE IF SpendTransactionOk(j) THEN DecodedTransaction("Spend", j)
    ELSE IF CollateralTransactionOk(j) THEN DecodedTransaction("Collateral", j)
    ELSE IF PaymentTransactionOk(j) THEN DecodedTransaction("Payment", j)
    ELSE IF FeeTransactionOk(j) THEN DecodedTransaction("Fee", j)
    ELSE Err(DeserializationError)

\* Transaction (Deserialize, tag = "type"): the tag names the variant, then
\* the variant's id and its flattened struct are read from the other fields
FromJson_Transaction(j) ==
    IF j.kind # "object" \/ ~RequiredFieldOk(j, "type", "string")
    THEN Err(DeserializationError)
    ELSE LET tag == j.fields["type"].s
         IN  IF tag = "spend" /\ UuidFieldOk(j, "id") /\ SpendTransactionOk(j)
             THEN DecodedTransaction("Spend", j)
             ELSE IF tag = "collateral" /\ UuidFieldOk(j, "id") /\ CollateralTransactionOk(j)
             THEN DecodedTransaction("Collateral", j)
             ELSE IF tag = "payment" /\ UuidFieldOk(j, "id") /\ PaymentTransactionOk(j)
             THEN DecodedTransaction("Payment", j)
             ELSE IF tag = "fee" /\ UuidFieldOk(j, "id") /\ FeeTransactionOk(j)
             THEN DecodedTransaction("Fee", j)
             ELSE Err(DeserializationError)

\* SignatureData (Deserialize): data and salt
SignatureDataOk(j) == RequiredFieldOk(j, "data", "string") /\ RequiredFieldOk(j, "salt", "string")

\* the texts of the model that are RFC 3339 timestamps (DateTime<Utc>)
Timestamps == {"2024-01-01T00:00:00Z"}

\* the fields of the variant Pending: status and retryAfter
SignaturePendingOk(j) ==
    /\ EnumFieldOk(j, "status", {"pending", "ready"})
    /\ RequiredFieldOk(j, "retryAfter", "number")

\* the fields of the variant Ready: status, signature and an optional expiresAt
SignatureReadyOk(j) ==
    /\ EnumFieldOk(j, "status", {"pending", "ready"})
    /\ RequiredFieldOk(j, "signature", "object")
    /\ SignatureDataOk(j.fields["signature"])
    /\ OptionalFieldOk(j, "expiresAt", "string")
    /\ OptionalField(j, "expiresAt") # None => j.fields["expiresAt"].s \in Timestamps

\* PaymentSignatureResponse (Deserialize, untagged): the variants are tried in
\* the order they are declared, Pending first; fields a variant does not
\* name are ignored
FromJson_PaymentSignatureResponse(j) ==
    IF SignaturePendingOk(j)
    THEN Ok([variant |-> "Pending", status |-> j.fields["status"].s])
    ELSE IF SignatureReadyOk(j)
    THEN Ok([variant |-> "Ready", status |-> j.fields["status"].s])
    ELSE Err(DeserializationError)

\* WithdrawalSignatureResponse (Deserialize, untagged): declared as
\* PaymentSignatureResponse is
FromJson_WithdrawalSignatureResponse(j) ==
    IF SignaturePendingOk(j)
    THEN Ok([variant |-> "Pending", status |-> j.fields["status"].s])
    ELSE IF SignatureReadyOk(j)
    THEN Ok([variant |-> "Ready", status |-> j.fields["status"].s])
    ELSE Err(DeserializationError)

\* Vec<Transaction>
FromJson_VecTransaction(j) ==
    IF j.kind = "array" /\ \A i \in 1..Len(j.items) : FromJson_Transaction(j.items[i]).ok
    THEN Ok([i \in 1..Len(j.items) |-> FromJson_Transaction(j.items[i]).value])
    ELSE Err(DeserializationError)

\* the target types T of the generic helpers
TargetTypes == {"Value", "Unit", "User", "OptionUser", "VecUser", "UpdateUserRequest"}

\* T::deserialize on a parsed value
FromJson(T, j) ==
    CASE T = "Value" -> Ok(j)
      [] T = "Unit" -> IF j = JNull THEN Ok(Unit) ELSE Err(DeserializationError)
      [] T = "User" -> FromJson_User(j)
      [] T = "OptionUser" ->
            IF j = JNull THEN Ok(None)
            ELSE IF FromJson_User(j).ok THEN Ok(Some(FromJson_User(j).value))
            ELSE Err(DeserializationError)
      [] T = "VecUser" -> FromJson_VecUser(j)
      [] T = "UpdateUserRequest" -> FromJson_UpdateUserRequest(j)
      [] T = "CardSecrets" -> FromJson_CardSecrets(j)
      [] T = "CardPin" -> FromJson_CardPin(j)
      [] T = "VecTransaction" -> FromJson_VecTransaction(j)

\* serde_json::from_str::<T>(text)
from_str(T, text) ==
    IF ParseJson(text).ok THEN FromJson(T, ParseJson(text).value)
    ELSE Err(DeserializationError)

\* serde_json::from_str::<ApiErrorResponse>(text)
from_str_ApiErrorResponse(text) ==
    IF ParseJson(text).ok THEN FromJson_ApiErrorResponse(ParseJson(text).value)
    ELSE Err(DeserializationError)

(***************************************************************************)
(* Status codes and the text of a response.                                *)
(***************************************************************************)
\* the statuses the server of the model answers with
Statuses == {200, 202, 204, 404, 500}

\* StatusCode::is_success
is_success(status) == 200 <= status /\ status < 300

\* StatusCode's Display: the code and its canonical reason
StatusDisplay(status) ==
    ToString(status) \o " " \o
        (CASE status = 200 -> "OK"
           [] status = 202 -> "Accepted"
           [] status = 204 -> "No Content"
           [] status = 404 -> "Not Found"
           [] status = 500 -> "Internal Server Error"
           [] OTHER -> "<unknown status code>")

\* the length in bytes where handle_response cuts a long error text
TruncateLimit == 200

\* the character that stands in the model's texts for U+00E9, a character of
\* two bytes in UTF-8 (the texts of the model are kept in ASCII)
TwoByteChar == "~"

\* the UTF-8 width of a character of the model's texts
ByteWidth(c) == IF c = TwoByteChar THEN 2 ELSE 1

\* the bytes of the characters lo..hi of text
RECURSIVE ByteLenRange(_, _, _)
ByteLenRange(text, lo, hi) ==
    IF lo > hi THEN 0
    ELSE IF lo = hi THEN ByteWidth(CharAt(text, lo))
    ELSE LET mid == (lo + hi) \div 2
         IN  ByteLenRange(text, lo, mid) + ByteLenRange(text, mid + 1, hi)

\* str::len: the length in bytes
ByteLen(text) == ByteLenRange(text, 1, Len(text))

\* the most leading characters of text, between lo and hi, that fit in n bytes
RECURSIVE CharsWithin(_, _, _, _)
CharsWithin(text, n, lo, hi) ==
    IF lo = hi THEN lo
    ELSE LET mid == (lo + hi + 1) \div 2
         IN  IF ByteLenRange(text, 1, mid) <= n THEN CharsWithin(text, n, mid, hi)
             ELSE CharsWithin(text, n, lo, mid - 1)

\* the number of leading characters of text that fill exactly n bytes, or -1
\* when byte n falls inside a character (str::is_char_boundary fails)
CharsInBytes(text, n) ==
    LET k == CharsWithin(text, n, 0, Len(text))
    IN  IF ByteLenRange(text, 1, k) = n THEN k ELSE -1

\* a panic of the calling task (not a value of Result)
Panicked == [ok |-> FALSE, err |-> [kind |-> "<panic>"]]

\* c repeated n times
RECURSIVE Repeat(_, _)
Repeat(c, n) ==
    IF n = 0 THEN ""
    ELSE LET half == Repeat(c, n \div 2)
         IN  half \o half \o (IF n % 2 = 1 THEN c ELSE "")

\* the response bodies the server of the model answers with
Bodies ==
    { "", "{}", "null", "[]", UserText, "[" \o UserText \o "]",
      NotFoundText, DeniedText, NumericCodeText, InternalErrorText,
      Repeat("x", TruncateLimit), Repeat("x", TruncateLimit + 1),
      Repeat(TwoByteChar, TruncateLimit - 50),
      "x" \o Repeat(TwoByteChar, TruncateLimit - 50) }

(***************************************************************************)
(* The response-interpretation routines. A response is its status, its     *)
(* body text and the URL it came from.                                     *)
(***************************************************************************)
EmptyResponseBody == Err(ValidationError("Empty response body"))

\* client.rs 574-578: the text put into the opaque error of the async path
TruncatedText(text) ==
    IF ByteLen(text) > TruncateLimit
    THEN LET n == CharsInBytes(text, TruncateLimit)
         IN  IF n < 0 THEN Panicked ELSE Ok(SubSeq(text, 1, n) \o "...")
    ELSE Ok(text)

\* a handle_response without the fallback to null on an empty 202
handle_response_no_null_fallback(T, status, url, text) ==
    IF status = 202
    THEN IF text = ""
         THEN IF from_str(T, "{}").ok THEN from_str(T, "{}")
              ELSE EmptyResponseBody
         ELSE IF from_str(T, text).ok THEN from_str(T, text)
              ELSE Err(DeserializationError)
    ELSE IF is_success(status)
    THEN IF text = ""
         THEN IF from_str(T, "null").ok THEN from_str(T, "null")
              ELSE EmptyResponseBody
         ELSE IF from_str(T, text).ok THEN from_str(T, text)
              ELSE Err(DeserializationError)
    ELSE IF from_str_ApiErrorResponse(text).ok
    THEN Err(ApiError(status, from_str_ApiErrorResponse(text).value))
    ELSE IF TruncatedText(text).ok
    THEN Err(Other("HTTP " \o StatusDisplay(status) \o " from " \o UrlString(url)
                   \o ": " \o TruncatedText(text).value))
    ELSE Panicked

\* a handle_response that treats every 2xx status as it treats 202
handle_response_all_accepted(T, status, url, text) ==
    IF is_success(status)
    THEN IF text = ""
         THEN IF from_str(T, "{}").ok THEN from_str(T, "{}")
              ELSE IF from_str(T, "null").ok THEN from_str(T, "null")
              ELSE EmptyResponseBody
         ELSE IF from_str(T, text).ok THEN from_str(T, text)
              ELSE Err(DeserializationError)
    ELSE IF is_success(status)
    THEN IF text = ""
         THEN IF from_str(T, "null").ok THEN from_str(T, "null")
              ELSE EmptyResponseBody
         ELSE IF from_str(T, text).ok THEN from_str(T, text)
              ELSE Err(DeserializationError)
    ELSE IF from_str_ApiErrorResponse(text).ok
    THEN Err(ApiError(status, from_str_ApiErrorResponse(text).value))
    ELSE IF TruncatedText(text).ok
    THEN Err(Other("HTTP " \o StatusDisplay(status) \o " from " \o UrlString(url)
                   \o ": " \o TruncatedText(text).value))
    ELSE Panicked

\* a handle_response that reports every structured error with status 500
handle_response_status_500(T, status, url, text) ==
    IF status = 202
    THEN IF text = ""
         THEN IF from_str(T, "{}").ok THEN from_str(T, "{}")
              ELSE IF from_str(T, "null").ok THEN from_str(T, "null")
              ELSE EmptyResponseBody
         ELSE IF from_str(T, text).ok THEN from_str(T, text)
              ELSE Err(DeserializationError)
    ELSE IF is_success(status)
    THEN IF text = ""
         THEN IF from_str(T, "null").ok THEN from_str(T, "null")
              ELSE EmptyResponseBody
         ELSE IF from_str(T, text).ok THEN from_str(T, text)
              ELSE Err(DeserializationError)
    ELSE IF from_str_ApiErrorResponse(text).ok
    THEN Err(ApiError(500, from_str_ApiErrorResponse(text).value))
    ELSE IF TruncatedText(text).ok
    THEN Err(Other("HTTP " \o StatusDisplay(status) \o " from " \o UrlString(url)
                   \o ": " \o TruncatedText(text).value))
    ELSE Panicked

\* RainClient::handle_response (status, url and text already read)
handle_response(T, status, url, text) ==
    IF status = 202
    THEN IF text = ""
         THEN IF from_str(T, "{}").ok THEN from_str(T, "{}")
              ELSE IF from_str(T, "null").ok THEN from_str(T, "null")
              ELSE EmptyResponseBody
         ELSE IF from_str(T, text).ok THEN from_str(T, text)
              ELSE Err(DeserializationError)
    ELSE IF is_success(status)
    THEN IF text = ""
         THEN IF from_str(T, "null").ok THEN from_str(T, "null")
              ELSE EmptyResponseBody
         ELSE IF from_str(T, text).ok THEN from_str(T, text)
              ELSE Err(DeserializationError)
    ELSE IF from_str_ApiErrorResponse(text).ok
    THEN Err(ApiError(status, from_str_ApiErrorResponse(text).value))
    ELSE IF TruncatedText(text).ok
    THEN Err(Other("HTTP " \o StatusDisplay(status) \o " from " \o UrlString(url)
                   \o ": " \o TruncatedText(text).value))
    ELSE Panicked

\* a handle_blocking_response that reports a 2xx body it cannot decode as a
\* validation error
handle_blocking_response_validation(T, status, text) ==
    IF is_success(status) /\ text # "" /\ ~from_str(T, text).ok
    THEN Err(ValidationError("Invalid response body"))
    ELSE IF is_success(status) /\ text # "" THEN from_str(T, text)
    ELSE IF is_success(status) THEN EmptyResponseBody
    ELSE Err(Other("HTTP " \o StatusDisplay(status) \o ": " \o text))

\* RainClient::handle_blocking_response (status and text already read)
handle_blocking_response(T, status, text) ==
    IF status = 202
    THEN IF text = ""
         THEN IF from_str(T, "{}").ok THEN from_str(T, "{}")
              ELSE IF from_str(T, "null").ok THEN from_str(T, "null")
              ELSE EmptyResponseBody
         ELSE IF from_str(T, text).ok THEN from_str(T, text)
              ELSE Err(DeserializationError)
    ELSE IF is_success(status)
    THEN IF text = ""
         THEN IF from_str(T, "null").ok THEN from_str(T, "null")
              ELSE EmptyResponseBody
         ELSE IF from_str(T, text).ok THEN from_str(T, text)
              ELSE Err(DeserializationError)
    ELSE IF from_str_ApiErrorResponse(text).ok
    THEN Err(ApiError(status, from_str_ApiErrorResponse(text).value))
    ELSE Err(Other("HTTP " \o StatusDisplay(status) \o ": " \o text))

\* the tail of delete, get_bytes, put_multipart_no_content and their blocking
\* forms on a non-2xx status
StatusAndTextError(status, text) ==
    Err(Other("HTTP " \o StatusDisplay(status) \o ": " \o text))

(***************************************************************************)
(* Headers and request builders (reqwest::RequestBuilder). A header map    *)
(* is a sequence of <<name, value>>; names are case-insensitive and kept   *)
(* in lower case, as http::HeaderName keeps them.                          *)
(***************************************************************************)
HeaderName(name) ==
    CASE name = "Api-Key" -> "api-key"
      [] name = "SessionId" -> "sessionid"
      [] name = "Accept" -> "accept"
      [] name = "User-Agent" -> "user-agent"
      [] name = "Content-Type" -> "content-type"
      [] OTHER -> name

\* HeaderValue::from_str accepts visible ASCII, space and tab: no line break
ValidHeaderValue(value) == \A i \in 1..Len(value) : CharAt(value, i) # "\n"

HasHeader(headers, name) == \E i \in 1..Len(headers) : headers[i][1] = name

\* the values sent under a name, in order
HeaderValues(headers, name) ==
    LET hits == SelectSeq(headers, LAMBDA h : h[1] = name)
    IN  [i \in 1..Len(hits) |-> hits[i][2]]

\* Client::get / post / patch / put / delete: a builder with no header yet
NewBuilder(method, url) ==
    [method |-> method, url |-> url, headers |-> <<>>, body |-> "<none>",
     error |-> FALSE]

\* RequestBuilder::header: appends; an invalid value is kept as the builder's
\* error, which send() returns
WithHeader(builder, name, value) ==
    IF ValidHeaderValue(value)
    THEN [builder EXCEPT !.headers = Append(@, <<HeaderName(name), value>>)]
    ELSE [builder EXCEPT !.error = TRUE]

\* RequestBuilder::body
WithBody(builder, bytes) == [builder EXCEPT !.body = bytes]

\* the loop `for (key, value) in headers { builder = builder.header(key, value) }`
RECURSIVE WithHeaders(_, _)
WithHeaders(builder, headers) ==
    IF headers = <<>> THEN builder
    ELSE WithHeaders(WithHeader(builder, Head(headers)[1], Head(headers)[2]),
                     Tail(headers))

\* RequestBuilder::multipart: the form as the body, Content-Type with a boundary
WithMultipart(builder, form) ==
    [builder EXCEPT !.headers = Append(@, <<"content-type", "multipart/form-data; boundary=<boundary>">>),
                    !.body = [multipart |-> form]]

\* an add_auth_headers that sends no key
add_auth_headers_none(builder, auth) == builder

\* an add_auth_headers that also sends the key as a bearer token
add_auth_headers_bearer(builder, auth) ==
    WithHeader(WithHeader(builder, "Api-Key", auth.api_key),
               "Authorization", "Bearer " \o auth.api_key)

\* auth::add_auth_headers_async
add_auth_headers_async(builder, auth) == WithHeader(builder, "Api-Key", auth.api_key)

\* auth::add_auth_headers_sync
add_auth_headers_sync(builder, auth) == WithHeader(builder, "Api-Key", auth.api_key)

\* the default headers RainClient::new gives the async client (client.rs 120-127)
DefaultHeaders(cfg) ==
    << <<"accept", "application/json">>,
       <<"content-type", "application/json">>,
       <<"user-agent", cfg.user_agent>> >>

\* the default headers RainClient::new gives the blocking client (client.rs 139-146)
BlockingDefaultHeaders(cfg) ==
    << <<"accept", "application/json">>,
       <<"content-type", "application/json">>,
       <<"user-agent", cfg.user_agent>> >>

\* the client adds each default header the request does not name already
RECURSIVE WithDefaults(_, _)
WithDefaults(headers, defaults) ==
    IF defaults = <<>> THEN headers
    ELSE IF HasHeader(headers, Head(defaults)[1])
    THEN WithDefaults(headers, Tail(defaults))
    ELSE WithDefaults(Append(headers, Head(defaults)), Tail(defaults))

\* the request RequestBuilder::send puts on the wire
WireRequest(builder, defaults) ==
    [method |-> builder.method, url |-> builder.url,
     headers |-> WithDefaults(builder.headers, defaults), body |-> builder.body]

(***************************************************************************)
(* Request bodies and serde_json::to_vec.                                  *)
(***************************************************************************)
\* a value whose Serialize fails (a map whose keys are not strings)
Unserializable == [type |-> "Unserializable"]

ContractRequest == [type |-> "CreateCompanyContractRequest", chain_id |-> 1,
                    owner_address |-> "0xabc"]

UserContractRequest == [type |-> "CreateUserContractRequest", chain_id |-> 1]

PinRequest == [type |-> "UpdateCardPinRequest", iv |-> "iv0", data |-> "d0"]

MemoRequest == [type |-> "UpdateTransactionRequest", memo |-> "lunch"]

\* a to_vec that serializes nothing: the body is left to be streamed on sending
to_vec_lazy(body) == Ok("<stream>")

\* serde_json::to_vec, on the request bodies of the model (camelCase structs)
to_vec(body) ==
    CASE body.type = "CreateCompanyContractRequest" ->
            Ok("{\"chainId\":" \o ToString(body.chain_id) \o ",\"ownerAddress\":\""
               \o body.owner_address \o "\"}")
      [] body.type = "CreateUserContractRequest" ->
            Ok("{\"chainId\":" \o ToString(body.chain_id) \o "}")
      [] body.type = "UpdateCardPinRequest" ->
            Ok("{\"encryptedPin\":{\"iv\":\"" \o body.iv \o "\",\"data\":\""
               \o body.data \o "\"}}")
      [] body.type = "UpdateTransactionRequest" ->
            Ok("{\"memo\":\"" \o body.memo \o "\"}")
      [] OTHER -> Err(DeserializationError)

(***************************************************************************)
(* The verb helpers, up to send(): each gives the builder it sends and     *)
(* the default headers of the client it sends with, or the error it        *)
(* returns before sending. self is the client: its config and auth_config. *)
(***************************************************************************)
Prepared(builder, defaults) == Ok([builder |-> builder, defaults |-> defaults])

\* RainClient::get, lines 209-211
get(self, path) ==
    LET url == build_url(self.config.base_url, path)
    IN  IF ~url.ok THEN url
        ELSE Prepared(add_auth_headers_async(NewBuilder("GET", url.value), self.auth_config),
                      DefaultHeaders(self.config))

\* RainClient::get_bytes, lines 220-222
get_bytes(self, path) ==
    LET url == build_url(self.config.base_url, path)
    IN  IF ~url.ok THEN url
        ELSE Prepared(add_auth_headers_async(NewBuilder("GET", url.value), self.auth_config),
                      DefaultHeaders(self.config))

\* RainClient::post, lines 242-245
post(self, path, body) ==
    LET url == build_url(self.config.base_url, path)
        body_bytes == to_vec(body)
    IN  IF ~url.ok THEN url
        ELSE IF ~body_bytes.ok THEN body_bytes
        ELSE Prepared(add_auth_headers_async(
                          WithBody(NewBuilder("POST", url.value), body_bytes.value),
                          self.auth_config),
                      DefaultHeaders(self.config))

\* RainClient::patch, lines 258-261
patch(self, path, body) ==
    LET url == build_url(self.config.base_url, path)
        body_bytes == to_vec(body)
    IN  IF ~url.ok THEN url
        ELSE IF ~body_bytes.ok THEN body_bytes
        ELSE Prepared(add_auth_headers_async(
                          WithBody(NewBuilder("PATCH", url.value), body_bytes.value),
                          self.auth_config),
                      DefaultHeaders(self.config))

\* RainClient::put, lines 274-277
put(self, path, body) ==
    LET url == build_url(self.config.base_url, path)
        body_bytes == to_vec(body)
    IN  IF ~url.ok THEN url
        ELSE IF ~body_bytes.ok THEN body_bytes
        ELSE Prepared(add_auth_headers_async(
                          WithBody(NewBuilder("PUT", url.value), body_bytes.value),
                          self.auth_config),
                      DefaultHeaders(self.config))

\* RainClient::get_with_headers, lines 290-296
get_with_headers(self, path, headers) ==
    LET url == build_url(self.config.base_url, path)
    IN  IF ~url.ok THEN url
        ELSE Prepared(WithHeaders(
                          add_auth_headers_async(NewBuilder("GET", url.value),
                                                 self.auth_config),
                          headers),
                      DefaultHeaders(self.config))

\* RainClient::put_with_headers, lines 310-317
put_with_headers(self, path, body, headers) ==
    LET url == build_url(self.config.base_url, path)
        body_bytes == to_vec(body)
    IN  IF ~url.ok THEN url
        ELSE IF ~body_bytes.ok THEN body_bytes
        ELSE Prepared(WithHeaders(
                          add_auth_headers_async(
                              WithBody(NewBuilder("PUT", url.value), body_bytes.value),
                              self.auth_config),
                          headers),
                      DefaultHeaders(self.config))

\* RainClient::delete, lines 326-328
delete(self, path) ==
    LET url == build_url(self.config.base_url, path)
    IN  IF ~url.ok THEN url
        ELSE Prepared(add_auth_headers_async(NewBuilder("DELETE", url.value),
                                             self.auth_config),
                      DefaultHeaders(self.config))

\* the headers put_multipart builds itself: Accept and User-Agent, or the error
\* of an invalid user agent
MultipartHeaders(self) ==
    IF ValidHeaderValue(self.config.user_agent)
    THEN Ok(<< <<"Accept", "application/json">>,
               <<"User-Agent", self.config.user_agent>> >>)
    ELSE Err(Other("Invalid user agent"))

\* RainClient::put_multipart, lines 347-362
put_multipart(self, path, form) ==
    LET url == build_url(self.config.base_url, path)
        headers == MultipartHeaders(self)
    IN  IF ~url.ok THEN url
        ELSE IF ~headers.ok THEN headers
        ELSE Prepared(WithMultipart(
                          WithHeader(WithHeaders(NewBuilder("PUT", url.value), headers.value),
                                     "Api-Key", self.auth_config.api_key),
                          form),
                      DefaultHeaders(self.config))

\* RainClient::put_multipart_no_content, lines 375-390
put_multipart_no_content(self, path, form) ==
    LET url == build_url(self.config.base_url, path)
        headers == MultipartHeaders(self)
    IN  IF ~url.ok THEN url
        ELSE IF ~headers.ok THEN headers
        ELSE Prepared(WithMultipart(
                          WithHeader(WithHeaders(NewBuilder("PUT", url.value), headers.value),
                                     "Api-Key", self.auth_config.api_key),
                          form),
                      DefaultHeaders(self.config))

\* RainClient::get_blocking, lines 405-407
get_blocking(self, path) ==
    LET url == build_url(self.config.base_url, path)
    IN  IF ~url.ok THEN url
        ELSE Prepared(add_auth_headers_sync(NewBuilder("GET", url.value), self.auth_config),
                      BlockingDefaultHeaders(self.config))

\* RainClient::get_bytes_blocking, lines 416-418
get_bytes_blocking(self, path) ==
    LET url == build_url(self.config.base_url, path)
    IN  IF ~url.ok THEN url
        ELSE Prepared(add_auth_headers_sync(NewBuilder("GET", url.value), self.auth_config),
                      BlockingDefaultHeaders(self.config))

\* RainClient::post_blocking, lines 438-444
post_blocking(self, path, body) ==
    LET url == build_url(self.config.base_url, path)
        body_bytes == to_vec(body)
    IN  IF ~url.ok THEN url
        ELSE IF ~body_bytes.ok THEN body_bytes
        ELSE Prepared(add_auth_headers_sync(
                          WithBody(NewBuilder("POST", url.value), body_bytes.value),
                          self.auth_config),
                      BlockingDefaultHeaders(self.config))

\* RainClient::patch_blocking, lines 457-463
patch_blocking(self, path, body) ==
    LET url == build_url(self.config.base_url, path)
        body_bytes == to_vec(body)
    IN  IF ~url.ok THEN url
        ELSE IF ~body_bytes.ok THEN body_bytes
        ELSE Prepared(add_auth_headers_sync(
                          WithBody(NewBuilder("PATCH", url.value), body_bytes.value),
                          self.auth_config),
                      BlockingDefaultHeaders(self.config))

\* RainClient::put_blocking, lines 476-482
put_blocking(self, path, body) ==
    LET url == build_url(self.config.base_url, path)
        body_bytes == to_vec(body)
    IN  IF ~url.ok THEN url
        ELSE IF ~body_bytes.ok THEN body_bytes
        ELSE Prepared(add_auth_headers_sync(
                          WithBody(NewBuilder("PUT", url.value), body_bytes.value),
                          self.auth_config),
                      BlockingDefaultHeaders(self.config))

\* RainClient::put_multipart_blocking_no_content, lines 495-510
put_multipart_blocking_no_content(self, path, form) ==
    LET url == build_url(self.config.base_url, path)
        headers == MultipartHeaders(self)
    IN  IF ~url.ok THEN url
        ELSE IF ~headers.ok THEN headers
        ELSE Prepared(WithMultipart(
                          WithHeader(WithHeaders(NewBuilder("PUT", url.value), headers.value),
                                     "Api-Key", self.auth_config.api_key),
                          form),
                      BlockingDefaultHeaders(self.config))

\* RainClient::delete_blocking, lines 525-527
delete_blocking(self, path) ==
    LET url == build_url(self.config.base_url, path)
    IN  IF ~url.ok THEN url
        ELSE Prepared(add_auth_headers_sync(NewBuilder("DELETE", url.value),
                                            self.auth_config),
                      BlockingDefaultHeaders(self.config))

(***************************************************************************)
(* The resource methods: each builds a path and calls one verb helper. An  *)
(* invocation names the method called (api), the helper it calls with its  *)
(* arguments, and whether the method discards the decoded value.           *)
(***************************************************************************)
NoBody == [type |-> "<none>"]

Invocation(api, helper, path, T) ==
    [api |-> api, helper |-> helper, path |-> path, T |-> T, body |-> NoBody,
     headers |-> <<>>, form |-> "<none>", discard |-> FALSE]

\* the query-string assembly of list_users (users.rs 46-62)
list_users_path(params) ==
    LET query_parts ==
            (IF params.company_id # None
             THEN <<"companyId=" \o params.company_id.v>> ELSE <<>>)
            \o (IF params.cursor # None THEN <<"cursor=" \o params.cursor.v>> ELSE <<>>)
            \o (IF params.limit # None
                THEN <<"limit=" \o ToString(params.limit.v)>> ELSE <<>>)
    IN  IF query_parts # <<>> THEN "/issuing/users" \o "?" \o Join(query_parts, "&")
        ELSE "/issuing/users"

\* RainClient::list_users
list_users(params) == Invocation("list_users", "get", list_users_path(params), "VecUser")

\* the query-string assembly of list_users_blocking (users.rs 274-290)
list_users_blocking_path(params) ==
    LET query_parts ==
            (IF params.company_id # None
             THEN <<"companyId=" \o params.company_id.v>> ELSE <<>>)
            \o (IF params.cursor # None THEN <<"cursor=" \o params.cursor.v>> ELSE <<>>)
            \o (IF params.limit # None
                THEN <<"limit=" \o ToString(params.limit.v)>> ELSE <<>>)
    IN  IF query_parts # <<>> THEN "/issuing/users" \o "?" \o Join(query_parts, "&")
        ELSE "/issuing/users"

\* RainClient::list_users_blocking
list_users_blocking(params) ==
    Invocation("list_users_blocking", "get_blocking", list_users_blocking_path(params),
               "VecUser")

\* RainClient::get_user
get_user(user_id) == Invocation("get_user", "get", "/issuing/users/" \o user_id, "User")

\* RainClient::get_user_blocking
get_user_blocking(user_id) ==
    Invocation("get_user_blocking", "get_blocking", "/issuing/users/" \o user_id, "User")

\* RainClient::delete_user
delete_user(user_id) ==
    Invocation("delete_user", "delete", "/issuing/users/" \o user_id, "Unit")

\* RainClient::delete_user_blocking
delete_user_blocking(user_id) ==
    Invocation("delete_user_blocking", "delete_blocking", "/issuing/users/" \o user_id,
               "Unit")

\* RainClient::delete_key
delete_key(key_id) == Invocation("delete_key", "delete", "/issuing/keys/" \o key_id, "Unit")

\* RainClient::delete_key_blocking
delete_key_blocking(key_id) ==
    Invocation("delete_key_blocking", "delete_blocking", "/issuing/keys/" \o key_id, "Unit")

\* RainClient::create_company_contract: the decoded Value is dropped
create_company_contract(company_id, request) ==
    [Invocation("create_company_contract", "post",
                "/companies/" \o company_id \o "/contracts", "Value")
        EXCEPT !.body = request, !.discard = TRUE]

\* RainClient::create_company_contract_blocking
create_company_contract_blocking(company_id, request) ==
    [Invocation("create_company_contract_blocking", "post_blocking",
                "/companies/" \o company_id \o "/contracts", "Value")
        EXCEPT !.body = request, !.discard = TRUE]

\* RainClient::update_transaction: the decoded Value is dropped
update_transaction(transaction_id, request) ==
    [Invocation("update_transaction", "patch", "/transactions/" \o transaction_id, "Value")
        EXCEPT !.body = request, !.discard = TRUE]

\* RainClient::update_transaction_blocking
update_transaction_blocking(transaction_id, request) ==
    [Invocation("update_transaction_blocking", "patch_blocking",
                "/transactions/" \o transaction_id, "Value")
        EXCEPT !.body = request, !.discard = TRUE]

\* a create_user_contract that decodes the response into () itself
create_user_contract_unit(user_id, request) ==
    [Invocation("create_user_contract", "post",
                "/users/" \o user_id \o "/contracts", "Unit")
        EXCEPT !.body = request]

\* RainClient::create_user_contract
create_user_contract(user_id, request) ==
    [Invocation("create_user_contract", "post",
                "/users/" \o user_id \o "/contracts", "Value")
        EXCEPT !.body = request, !.discard = TRUE]

\* RainClient::create_user_contract_blocking
create_user_contract_blocking(user_id, request) ==
    [Invocation("create_user_contract_blocking", "post_blocking",
                "/users/" \o user_id \o "/contracts", "Value")
        EXCEPT !.body = request, !.discard = TRUE]

\* a get_card_secrets that leaves the session id out of its request
get_card_secrets_no_session(card_id, session_id) ==
    Invocation("get_card_secrets", "get_with_headers",
               "/issuing/cards/" \o card_id \o "/secrets", "CardSecrets")

\* RainClient::get_card_secrets
get_card_secrets(card_id, session_id) ==
    [Invocation("get_card_secrets", "get_with_headers",
                "/issuing/cards/" \o card_id \o "/secrets", "CardSecrets")
        EXCEPT !.headers = << <<"SessionId", session_id>> >>]

\* RainClient::get_card_pin
get_card_pin(card_id, session_id) ==
    [Invocation("get_card_pin", "get_with_headers",
                "/issuing/cards/" \o card_id \o "/pin", "CardPin")
        EXCEPT !.headers = << <<"SessionId", session_id>> >>]

\* RainClient::update_card_pin: the decoded Value is dropped
update_card_pin(card_id, request, session_id) ==
    [Invocation("update_card_pin", "put_with_headers",
                "/issuing/cards/" \o card_id \o "/pin", "Value")
        EXCEPT !.body = request, !.headers = << <<"SessionId", session_id>> >>,
               !.discard = TRUE]

\* form_urlencoded::byte_serialize on one character: letters, digits and
\* * - . _ stay, a space becomes '+', every other byte is percent-encoded
FormEncodeChar(c) ==
    CASE c = " " -> "+"
      [] c = ":" -> "%3A"
      [] c = "&" -> "%26"
      [] c = "=" -> "%3D"
      [] c = "?" -> "%3F"
      [] c = "/" -> "%2F"
      [] OTHER -> c

RECURSIVE FormEncodeRange(_, _, _)
FormEncodeRange(s, lo, hi) ==
    IF lo > hi THEN ""
    ELSE IF lo = hi THEN FormEncodeChar(CharAt(s, lo))
    ELSE LET mid == (lo + hi) \div 2
         IN  FormEncodeRange(s, lo, mid) \o FormEncodeRange(s, mid + 1, hi)

FormEncode(s) == FormEncodeRange(s, 1, Len(s))

\* one key=value pair of the query string, or nothing for a None field
\* (skip_serializing_if = "Option::is_none")
QueryPair(key, field) ==
    IF field = None THEN <<>> ELSE <<FormEncode(key) \o "=" \o FormEncode(field.v)>>

\* serde_urlencoded::to_string(params) for ListTransactionsParams: the fields
\* in their order, under their serde names; the value of "type" is serialized
\* as a sequence, which the serializer of a pair's value does not support
to_string(params) ==
    IF params.transaction_type # None
    THEN Err(ValidationError("URL encoding error: unsupported value"))
    ELSE Ok(Join(QueryPair("companyId", params.company_id)
                 \o QueryPair("userId", params.user_id)
                 \o QueryPair("cardId", params.card_id)
                 \o QueryPair("transactionHash", params.transaction_hash)
                 \o QueryPair("authorizedBefore", params.authorized_before)
                 \o QueryPair("authorizedAfter", params.authorized_after)
                 \o QueryPair("postedBefore", params.posted_before)
                 \o QueryPair("postedAfter", params.posted_after)
                 \o QueryPair("cursor", params.cursor)
                 \o QueryPair("limit", IF params.limit = None THEN None
                                       ELSE Some(ToString(params.limit.v))),
                 "&"))

\* the path list_transactions hands to get: "/transactions", then '?' and the
\* query string unless that is empty
list_transactions_path(params) ==
    LET query_string == to_string(params)
    IN  IF ~query_string.ok \/ query_string.value = "" THEN "/transactions"
        ELSE "/transactions" \o "?" \o query_string.value

\* RainClient::list_transactions
list_transactions(params) ==
    [api |-> "list_transactions", helper |-> "get",
     path |-> list_transactions_path(params), T |-> "VecTransaction",
     body |-> NoBody, headers |-> <<>>, form |-> "<none>", discard |-> FALSE,
     params |-> params]

\* RainClient::list_transactions_blocking
list_transactions_blocking(params) ==
    [api |-> "list_transactions_blocking", helper |-> "get_blocking",
     path |-> list_transactions_path(params), T |-> "VecTransaction",
     body |-> NoBody, headers |-> <<>>, form |-> "<none>", discard |-> FALSE,
     params |-> params]

\* ListTransactionsParams with every field None
NoTransactionsParams ==
    [company_id |-> None, user_id |-> None, card_id |-> None, transaction_type |-> None,
     transaction_hash |-> None, authorized_before |-> None, authorized_after |-> None,
     posted_before |-> None, posted_after |-> None, cursor |-> None, limit |-> None]

\* the params the model lists transactions with; a DateTime<Utc> is written
\* as chrono serializes it (RFC 3339)
ListTransactionsParamsSet ==
    { NoTransactionsParams,
      [NoTransactionsParams EXCEPT !.limit = Some(20)],
      [NoTransactionsParams EXCEPT !.cursor = Some("c1"),
          !.company_id = Some("0a0a0a0a-0000-4000-8000-000000000001")],
      [NoTransactionsParams EXCEPT !.authorized_after = Some("2024-01-01T00:00:00Z")],
      [NoTransactionsParams EXCEPT !.transaction_type = Some(<<"spend", "fee">>)] }

ListTransactionsInvocations ==
    {list_transactions(p) : p \in ListTransactionsParamsSet}
    \cup {list_transactions_blocking(p) : p \in ListTransactionsParamsSet}

\* the files the process can read, and their bytes
FileSystem == [file_path \in {"/docs/passport.pdf"} |-> "%PDF-1.7"]

\* std::fs::read
fs_read(file_path) ==
    IF file_path \in DOMAIN FileSystem THEN Ok(FileSystem[file_path])
    ELSE Err([kind |-> "io::Error"])

\* the text fields a form builder adds after the file part
DocumentTextFields(params) ==
    << <<"type", params.document_type>>, <<"side", params.side>> >>
    \o (IF params.name # None THEN << <<"name", params.name.v>> >> ELSE <<>>)
    \o (IF params.country # None THEN << <<"country", params.country.v>> >> ELSE <<>>)
    \o (IF params.country_code # None
        THEN << <<"countryCode", params.country_code.v>> >> ELSE <<>>)

\* RainClient::build_company_document_form (applications.rs 717-759)
build_company_document_form(params) ==
    LET file_bytes == fs_read(params.file_path)
        file_name == Last(Split(params.file_path, "/"))
    IN  IF ~file_bytes.ok THEN Err(Other("Failed to read file"))
        ELSE Ok([document |-> [bytes |-> file_bytes.value, file_name |-> file_name,
                               mime |-> "application/octet-stream"],
                 texts |-> DocumentTextFields(params)])

\* RainClient::build_user_document_form (applications.rs 762-804)
build_user_document_form(params) ==
    LET file_bytes == fs_read(params.file_path)
        file_name == Last(Split(params.file_path, "/"))
    IN  IF ~file_bytes.ok THEN Err(Other("Failed to read file"))
        ELSE Ok([document |-> [bytes |-> file_bytes.value, file_name |-> file_name,
                               mime |-> "application/octet-stream"],
                 texts |-> DocumentTextFields(params)])

\* a call of an upload method: an invocation of put_multipart, with the params
\* its form is built from
UploadInvocation(api, path, params) ==
    [api |-> api, helper |-> "put_multipart", path |-> path, T |-> "Value",
     body |-> NoBody, headers |-> <<>>, form |-> "<none>", discard |-> FALSE,
     params |-> params]

\* RainClient::upload_company_document, up to its call of put_multipart
upload_company_document(company_id, params) ==
    UploadInvocation("upload_company_document",
                     "/applications/company/" \o company_id \o "/document", params)

\* RainClient::upload_ubo_document, up to its call of put_multipart
upload_ubo_document(company_id, ubo_id, params) ==
    UploadInvocation("upload_ubo_document",
                     "/applications/company/" \o company_id \o "/ubo/" \o ubo_id
                         \o "/document", params)

\* RainClient::upload_user_document, up to its call of put_multipart
upload_user_document(user_id, params) ==
    UploadInvocation("upload_user_document",
                     "/applications/user/" \o user_id \o "/document", params)

\* the DocumentUploadParams of the model: a file that can be read, with and
\* without a name, and a file that cannot
DocumentUploadParamsSet ==
    { p \in [document_type : {"idCard"}, side : {"front"}, country : {Some("US")},
             country_code : {None}, name : {None, Some("Passport")},
             file_path : {"/docs/passport.pdf", "/docs/missing.pdf"}] :
        p.file_path \notin DOMAIN FileSystem => p.name = None }

UploadInvocations ==
    UNION { { upload_company_document(id, p), upload_ubo_document(id, id, p),
              upload_user_document(id, p) } :
            id \in Uuids, p \in DocumentUploadParamsSet }

\* the blocking method of each async resource method of the model, where the
\* source has one
BlockingCounterpart ==
    [list_users |-> "list_users_blocking",
     get_user |-> "get_user_blocking",
     delete_user |-> "delete_user_blocking",
     delete_key |-> "delete_key_blocking",
     create_company_contract |-> "create_company_contract_blocking",
     create_user_contract |-> "create_user_contract_blocking",
     get_card_secrets |-> "<none>",
     get_card_pin |-> "<none>",
     update_card_pin |-> "<none>"]

(***************************************************************************)
(* The arguments the callers of the model pass.                            *)
(***************************************************************************)
ListUsersParamsSet ==
    [company_id : {None} \cup {Some(id) : id \in Uuids},
     cursor : {None, Some("c1")},
     limit : {None, Some(20)}]

SessionIds == {"sess-1", "sess-2", "bad\nsess"}

\* the header lists passed to get_with_headers and put_with_headers directly
CustomHeaderLists ==
    { <<>>,
      << <<"SessionId", "sess-1">> >>,
      << <<"Accept", "text/plain">> >>,
      << <<"User-Agent", "caller/1">> >>,
      << <<"Api-Key", "other-key">> >> }

RequestBodies == {ContractRequest, Unserializable}

\* calls of the resource methods
ApiInvocations ==
    {list_users(p) : p \in ListUsersParamsSet}
    \cup {list_users_blocking(p) : p \in ListUsersParamsSet}
    \cup UNION { { get_user(id), get_user_blocking(id), delete_user(id),
                   delete_user_blocking(id), delete_key(id), delete_key_blocking(id),
                   create_company_contract(id, ContractRequest),
                   create_company_contract_blocking(id, ContractRequest),
                   create_user_contract(id, UserContractRequest),
                   create_user_contract_blocking(id, UserContractRequest),
                   update_transaction(id, MemoRequest),
                   update_transaction_blocking(id, MemoRequest) }
                 : id \in Uuids }
    \cup {get_card_secrets(id, sid) : id \in Uuids, sid \in SessionIds}
    \cup {get_card_pin(id, sid) : id \in Uuids, sid \in SessionIds}
    \cup {update_card_pin(id, PinRequest, sid) : id \in Uuids, sid \in SessionIds}

\* calls of the public verb helpers themselves
HelperInvocations ==
    {Invocation(h, h, "/users", T) : h \in {"get", "get_blocking"}, T \in TargetTypes}
    \cup {Invocation(h, h, "/transactions/t1/receipt", "Bytes") :
            h \in {"get_bytes", "get_bytes_blocking"}}
    \cup {[Invocation(h, h, "/contracts/c1", T) EXCEPT !.body = b] :
            h \in {"post", "patch", "put", "post_blocking", "patch_blocking",
                   "put_blocking"},
            T \in {"Value", "User"}, b \in RequestBodies}
    \cup {[Invocation("get_with_headers", "get_with_headers", "/cards/c1", "Value")
             EXCEPT !.headers = hs] : hs \in CustomHeaderLists}
    \cup {[Invocation("put_with_headers", "put_with_headers", "/cards/c1/pin", "Value")
             EXCEPT !.headers = hs, !.body = b] :
            hs \in CustomHeaderLists, b \in RequestBodies}
    \cup {Invocation(h, h, "/keys/k1", "Unit") : h \in {"delete", "delete_blocking"}}
    \cup {[Invocation("put_multipart", "put_multipart", "/applications/user/u1/document", T)
             EXCEPT !.form = "document"] : T \in {"Value", "User"}}
    \cup {[Invocation(h, h, "/disputes/d1/evidence", "Unit") EXCEPT !.form = "evidence"] :
            h \in {"put_multipart_no_content", "put_multipart_blocking_no_content"}}

Invocations == ApiInvocations \cup HelperInvocations

(***************************************************************************)
(* The state: one client (its configuration and key never change after     *)
(* RainClient::new) and the call in progress on it.                        *)
(***************************************************************************)
VARIABLES
    config,         \* RainClient.config: base_url, timeout_secs, user_agent
    auth_config,    \* RainClient.auth_config: api_key
    pc,             \* "idle", "in_flight", "received", "returned"
    call,           \* the invocation in progress
    request,        \* the HTTP request on the wire
    response,       \* the response received
    result,         \* what the call returned
    sends           \* the HTTP requests the call in progress has issued

\* the state of build_url taken on its own (SpecUrl)
VARIABLES u_base, u_path, u_pc, u_result, u_first, u_respelt

\* the calls issued at once through one client and its clones (SpecConc)
VARIABLES tasks

c_vars == <<config, auth_config, pc, call, request, response, result, sends>>

u_vars == <<u_base, u_path, u_pc, u_result, u_first, u_respelt>>

t_vars == <<tasks>>

\* one decoding of a JSON payload into a model type (SpecDecode)
VARIABLES d_pc, d_T, d_payload, d_result

d_vars == <<d_pc, d_T, d_payload, d_result>>

vars == <<c_vars, u_vars, t_vars, d_vars>>

NoCall == [api |-> "<none>", helper |-> "<none>"]

NoRequest == [method |-> "<none>"]

NoResponse == [status |-> 0]

NoResult == [ok |-> FALSE, err |-> [kind |-> "<none>"]]

NotCalled == Err(Other("not called"))

\* the client handle the helpers read
Self == [config |-> config, auth_config |-> auth_config]

\* Config::new(environment), then with_user_agent
Config_new(environment, user_agent) ==
    [base_url |-> Environment_base_url(environment), timeout_secs |-> 30,
     user_agent |-> user_agent, enable_logging |-> FALSE]

\* AuthConfig::with_api_key
with_api_key(api_key) == [api_key |-> api_key]

\* RainClient::new: fails on a user agent that is no header value
RainClient_new(cfg, auth) ==
    IF ValidHeaderValue(cfg.user_agent)
    THEN Ok([config |-> cfg, auth_config |-> auth])
    ELSE Err(Other("Invalid user agent"))

\* the clients of the model: environment, user agent, API key
ClientSetups ==
    { <<[tag |-> "Dev"], "rain-sdk/0.1.0", "key-1">>,
      <<[tag |-> "Production"], "my-app/1.0", "key-2">>,
      <<[tag |-> "Custom", url |-> MkUrl("https", "api.example.com", <<"v1", "">>)],
        "rain-sdk/0.1.0", "key-2">>,
      <<[tag |-> "Custom", url |-> MailtoUrl], "rain-sdk/0.1.0", "key-1">>,
      <<[tag |-> "Dev"], "rain-sdk/0.1.0", "bad\nkey">>,
      <<[tag |-> "Dev"], "bad\nagent", "key-1">> }

TaskIds == 1..NumTasks

\* a call site that has no call in progress
IdleTask ==
    [pc |-> "idle", call |-> NoCall, request |-> NoRequest, response |-> NoResponse,
     result |-> NoResult]

TasksIdle == tasks = [t \in TaskIds |-> IdleTask]

NoPayload == [type |-> "<none>"]

DecodeIdle ==
    /\ d_pc = "off"
    /\ d_T = "<none>"
    /\ d_payload = NoPayload
    /\ d_result = NotCalled

UrlIdle ==
    /\ u_base = MailtoUrl
    /\ u_path = ""
    /\ u_pc = "off"
    /\ u_result = NotCalled
    /\ u_first = NotCalled
    /\ u_respelt = FALSE

Init ==
    /\ \E setup \in ClientSetups :
          LET client == RainClient_new(Config_new(setup[1], setup[2]), with_api_key(setup[3]))
          IN  /\ client.ok
              /\ config = client.value.config
              /\ auth_config = client.value.auth_config
    /\ pc = "idle"
    /\ call = NoCall
    /\ request = NoRequest
    /\ response = NoResponse
    /\ result = NoResult
    /\ sends = 0
    /\ UrlIdle
    /\ TasksIdle
    /\ DecodeIdle

\* what the resource method returns from what its helper returned
ApiReturn(c, helper_result) ==
    IF helper_result.ok /\ c.discard THEN Ok(Unit) ELSE helper_result

\* the helper runs up to send(): it returns an error of its own, or send()
\* returns the builder's error, or the request goes on the wire
Start(c, prepared) ==
    /\ pc = "idle"
    /\ call' = c
    /\ response' = NoResponse
    /\ IF ~prepared.ok
       THEN /\ result' = ApiReturn(c, prepared)
            /\ request' = NoRequest
            /\ sends' = 0
            /\ pc' = "returned"
       ELSE IF prepared.value.builder.error
       THEN /\ result' = ApiReturn(c, Err(HttpError("builder")))
            /\ request' = NoRequest
            /\ sends' = 0
            /\ pc' = "returned"
       ELSE /\ result' = NoResult
            /\ request' = WireRequest(prepared.value.builder, prepared.value.defaults)
            /\ sends' = 1
            /\ pc' = "in_flight"
    /\ UNCHANGED <<config, auth_config, u_vars, t_vars, d_vars>>

Call_get ==
    \E c \in Invocations : c.helper = "get" /\ Start(c, get(Self, c.path))

Call_get_bytes ==
    \E c \in Invocations : c.helper = "get_bytes" /\ Start(c, get_bytes(Self, c.path))

Call_post ==
    \E c \in Invocations : c.helper = "post" /\ Start(c, post(Self, c.path, c.body))

Call_patch ==
    \E c \in Invocations : c.helper = "patch" /\ Start(c, patch(Self, c.path, c.body))

Call_put ==
    \E c \in Invocations : c.helper = "put" /\ Start(c, put(Self, c.path, c.body))

Call_get_with_headers ==
    \E c \in Invocations :
        c.helper = "get_with_headers" /\ Start(c, get_with_headers(Self, c.path, c.headers))

Call_put_with_headers ==
    \E c \in Invocations :
        /\ c.helper = "put_with_headers"
        /\ Start(c, put_with_headers(Self, c.path, c.body, c.headers))

Call_delete ==
    \E c \in Invocations : c.helper = "delete" /\ Start(c, delete(Self, c.path))

Call_put_multipart ==
    \E c \in Invocations :
        c.helper = "put_multipart" /\ Start(c, put_multipart(Self, c.path, c.form))

Call_put_multipart_no_content ==
    \E c \in Invocations :
        /\ c.helper = "put_multipart_no_content"
        /\ Start(c, put_multipart_no_content(Self, c.path, c.form))

Call_get_blocking ==
    \E c \in Invocations : c.helper = "get_blocking" /\ Start(c, get_blocking(Self, c.path))

Call_get_bytes_blocking ==
    \E c \in Invocations :
        c.helper = "get_bytes_blocking" /\ Start(c, get_bytes_blocking(Self, c.path))

Call_post_blocking ==
    \E c \in Invocations :
        c.helper = "post_blocking" /\ Start(c, post_blocking(Self, c.path, c.body))

Call_patch_blocking ==
    \E c \in Invocations :
        c.helper = "patch_blocking" /\ Start(c, patch_blocking(Self, c.path, c.body))

Call_put_blocking ==
    \E c \in Invocations :
        c.helper = "put_blocking" /\ Start(c, put_blocking(Self, c.path, c.body))

Call_put_multipart_blocking_no_content ==
    \E c \in Invocations :
        /\ c.helper = "put_multipart_blocking_no_content"
        /\ Start(c, put_multipart_blocking_no_content(Self, c.path, c.form))

Call_delete_blocking ==
    \E c \in Invocations :
        c.helper = "delete_blocking" /\ Start(c, delete_blocking(Self, c.path))

\* the upload methods: the form is built from the file, then put_multipart is
\* called with it (applications.rs 264-266, 315-317, 707-709)
Call_upload_document ==
    \E c \in UploadInvocations :
        LET form == IF c.api = "upload_company_document"
                    THEN build_company_document_form(c.params)
                    ELSE build_user_document_form(c.params)
        IN  Start(c, IF form.ok THEN put_multipart(Self, c.path, form.value) ELSE form)

\* list_transactions and list_transactions_blocking: the query string is
\* serialized first, and its error is returned before any request is built
Call_list_transactions ==
    \E c \in ListTransactionsInvocations :
        LET query_string == to_string(c.params)
        IN  Start(c, IF ~query_string.ok THEN query_string
                     ELSE IF c.helper = "get" THEN get(Self, c.path)
                     ELSE get_blocking(Self, c.path))

\* Policy::limited(10) of RainClient::new (client.rs 132 and 151)
RedirectLimit == 10

\* the helpers whose body is a multipart stream, which cannot be sent again
MultipartHelpers ==
    {"put_multipart", "put_multipart_no_content", "put_multipart_blocking_no_content"}

\* where the server of the model redirects a request to: the same host, one
\* segment further
Location(url) == [url EXCEPT !.segments = Append(@, "moved")]

\* the server answers 307 with a Location: inside the same send() the client
\* issues the request again, to the new URL, with its method, headers and body
Redirected ==
    /\ pc = "in_flight"
    /\ sends <= MaxHops
    /\ sends <= RedirectLimit
    /\ call.helper \notin MultipartHelpers
    /\ request' = [request EXCEPT !.url = Location(request.url)]
    /\ sends' = sends + 1
    /\ UNCHANGED <<config, auth_config, pc, call, response, result, u_vars, t_vars, d_vars>>

\* the server answers: a status and a body, from the URL requested; the body
\* may fail to arrive (readable = FALSE)
ServerResponds ==
    /\ pc = "in_flight"
    /\ \E status \in Statuses, body \in Bodies, readable \in BOOLEAN :
          /\ ~readable => body = ""
          /\ response' = [status |-> status, body |-> body, url |-> request.url,
                          readable |-> readable]
    /\ pc' = "received"
    /\ UNCHANGED <<config, auth_config, call, request, result, sends, u_vars, t_vars, d_vars>>

\* connection, TLS or timeout failure: send() returns the transport error
TransportFails ==
    /\ pc = "in_flight"
    /\ result' = ApiReturn(call, Err(HttpError("transport")))
    /\ pc' = "returned"
    /\ UNCHANGED <<config, auth_config, call, request, response, sends, u_vars, t_vars, d_vars>>

\* a helper that sends its request again when the first attempt fails
Finish_retry(helper_result) ==
    /\ pc = "received"
    /\ IF helper_result.ok \/ sends > 1
       THEN /\ result' = ApiReturn(call, helper_result)
            /\ pc' = "returned"
            /\ UNCHANGED sends
       ELSE /\ pc' = "in_flight"
            /\ sends' = sends + 1
            /\ UNCHANGED result
    /\ UNCHANGED <<config, auth_config, call, request, response, u_vars, t_vars, d_vars>>

Finish(helper_result) ==
    /\ pc = "received"
    /\ result' = ApiReturn(call, helper_result)
    /\ pc' = "returned"
    /\ UNCHANGED <<config, auth_config, call, request, response, sends, u_vars, t_vars, d_vars>>

AsyncJsonHelpers ==
    {"get", "post", "patch", "put", "get_with_headers", "put_with_headers", "put_multipart"}

BlockingJsonHelpers == {"get_blocking", "post_blocking", "patch_blocking", "put_blocking"}

\* the helper reads the text (client.rs 543) and interprets the response
Finish_handle_response ==
    /\ call.helper \in AsyncJsonHelpers
    /\ Finish(IF response.readable
              THEN handle_response(call.T, response.status, response.url, response.body)
              ELSE Err(HttpError("body")))

\* the helper reads the text (client.rs 590) and interprets the response
Finish_handle_blocking_response ==
    /\ call.helper \in BlockingJsonHelpers
    /\ Finish(IF response.readable
              THEN handle_blocking_response(call.T, response.status, response.body)
              ELSE Err(HttpError("body")))

\* Response::bytes of a body that is UTF-8 text
Bytes(text) == [bytes |-> text]

\* a get_bytes that decodes the body as JSON before it returns the bytes
GetBytesTail_parsed(resp) ==
    IF ~resp.readable THEN Err(HttpError("body"))
    ELSE IF is_success(resp.status)
    THEN (IF ParseJson(resp.body).ok THEN Ok(Bytes(resp.body))
          ELSE Err(DeserializationError))
    ELSE StatusAndTextError(resp.status, resp.body)

\* a no-content tail that takes 204 only for success
StatusOnlyTail_204_only(resp) ==
    IF resp.status = 204 THEN Ok(Unit)
    ELSE IF ~resp.readable THEN Err(HttpError("body"))
    ELSE StatusAndTextError(resp.status, resp.body)

\* the tail of get_bytes (client.rs 225-232) and get_bytes_blocking (421-428)
GetBytesTail(resp) ==
    IF ~resp.readable THEN Err(HttpError("body"))
    ELSE IF is_success(resp.status) THEN Ok(Bytes(resp.body))
    ELSE StatusAndTextError(resp.status, resp.body)

\* the tail of delete (client.rs 331-337), delete_blocking (530-536),
\* put_multipart_no_content (393-399) and its blocking form (513-519): the
\* body is read on a non-2xx status only
StatusOnlyTail(resp) ==
    IF is_success(resp.status) \/ resp.status = 204 THEN Ok(Unit)
    ELSE IF ~resp.readable THEN Err(HttpError("body"))
    ELSE StatusAndTextError(resp.status, resp.body)

Finish_get_bytes ==
    /\ call.helper \in {"get_bytes", "get_bytes_blocking"}
    /\ Finish(GetBytesTail(response))

Finish_delete ==
    /\ call.helper \in {"delete", "delete_blocking"}
    /\ Finish(StatusOnlyTail(response))

Finish_no_content ==
    /\ call.helper \in {"put_multipart_no_content", "put_multipart_blocking_no_content"}
    /\ Finish(StatusOnlyTail(response))

\* the caller takes the result; the client is ready for the next call
NextCall ==
    /\ pc = "returned"
    /\ pc' = "idle"
    /\ call' = NoCall
    /\ request' = NoRequest
    /\ response' = NoResponse
    /\ result' = NoResult
    /\ sends' = 0
    /\ UNCHANGED <<config, auth_config, u_vars, t_vars, d_vars>>

Next ==
    \/ Call_get
    \/ Call_get_bytes
    \/ Call_post
    \/ Call_patch
    \/ Call_put
    \/ Call_get_with_headers
    \/ Call_put_with_headers
    \/ Call_delete
    \/ Call_put_multipart
    \/ Call_put_multipart_no_content
    \/ Call_get_blocking
    \/ Call_get_bytes_blocking
    \/ Call_post_blocking
    \/ Call_patch_blocking
    \/ Call_put_blocking
    \/ Call_put_multipart_blocking_no_content
    \/ Call_delete_blocking
    \/ Call_upload_document
    \/ Call_list_transactions
    \/ Redirected
    \/ ServerResponds
    \/ TransportFails
    \/ Finish_handle_response
    \/ Finish_handle_blocking_response
    \/ Finish_get_bytes
    \/ Finish_delete
    \/ Finish_no_content
    \/ NextCall

Spec == Init /\ [][Next]_vars

(***************************************************************************)
(* build_url on its own: every base URL, every path over PathAlphabet of   *)
(* at most MaxPathLen characters.                                          *)
(***************************************************************************)
PathAlphabet == {"/", "a", "b", ".", "?"}

RECURSIVE StringsUpTo(_)
StringsUpTo(n) ==
    IF n = 0 THEN {""}
    ELSE LET shorter == StringsUpTo(n - 1)
         IN  shorter \cup {s \o c : s \in shorter, c \in PathAlphabet}

Paths == StringsUpTo(MaxPathLen)

\* the client of the main specification stays as constructed
ClientIdle ==
    /\ config = Config_new([tag |-> "Dev"], "rain-sdk/0.1.0")
    /\ auth_config = with_api_key("key-1")
    /\ pc = "off"
    /\ call = NoCall
    /\ request = NoRequest
    /\ response = NoResponse
    /\ result = NoResult
    /\ sends = 0

UrlInit ==
    /\ ClientIdle
    /\ TasksIdle
    /\ DecodeIdle
    /\ u_base \in {Environment_base_url(e) : e \in Environments}
    /\ u_path \in Paths
    /\ u_pc = "ready"
    /\ u_result = NotCalled
    /\ u_first = NotCalled
    /\ u_respelt = FALSE

\* one call of build_url
BuildUrl ==
    /\ u_pc = "ready"
    /\ u_result' = build_url(u_base, u_path)
    /\ u_first' = IF u_respelt THEN u_first ELSE build_url(u_base, u_path)
    /\ u_pc' = "done"
    /\ UNCHANGED <<u_base, u_path, u_respelt, c_vars, t_vars, d_vars>>

\* the same path with one more slash: in front, behind, or next to a slash
SlashRespellings(path) ==
    { SubSeq(path, 1, i) \o "/" \o SubSeq(path, i + 1, Len(path)) :
        i \in { j \in 0..Len(path) :
                  \/ j = 0
                  \/ j = Len(path)
                  \/ CharAt(path, j) = "/"
                  \/ CharAt(path, j + 1) = "/" } }

\* the caller spells the same path with one more slash and calls again
RespellPath ==
    /\ u_pc = "done"
    /\ ~u_respelt
    /\ u_path' \in SlashRespellings(u_path)
    /\ u_respelt' = TRUE
    /\ u_pc' = "ready"
    /\ UNCHANGED <<u_base, u_result, u_first, c_vars, t_vars, d_vars>>

\* the caller configures the same base URL with a final slash and calls again
RespellBase ==
    /\ u_pc = "done"
    /\ ~u_respelt
    /\ ~u_base.cannot_be_a_base
    /\ u_base.segments[Len(u_base.segments)] # ""
    /\ u_base' = [u_base EXCEPT !.segments = Append(@, "")]
    /\ u_respelt' = TRUE
    /\ u_pc' = "ready"
    /\ UNCHANGED <<u_path, u_result, u_first, c_vars, t_vars, d_vars>>

UrlNext == BuildUrl \/ RespellPath \/ RespellBase

SpecUrl == UrlInit /\ [][UrlNext]_vars

(***************************************************************************)
(* C1.                                                                     *)
(***************************************************************************)
\* the maximal runs of characters other than '/' in a path, in order
RECURSIVE SlashFreeRuns(_, _, _)
SlashFreeRuns(s, i, run) ==
    LET closed == IF run = "" THEN <<>> ELSE <<run>>
    IN  IF i > Len(s) THEN closed
        ELSE IF CharAt(s, i) = "/" THEN closed \o SlashFreeRuns(s, i + 1, "")
        ELSE SlashFreeRuns(s, i + 1, run \o CharAt(s, i))

NonEmptySegmentsOf(path) == SlashFreeRuns(path, 1, "")

SelectNonEmpty(segs) == SelectSeq(segs, LAMBDA x : x # "")

NotDotSegment(seg) == seg # "." /\ seg # ".."

\* the segments of P that reach the URL: not ".", not "..", percent-encoded
AppendedSegments(path) ==
    LET kept == SelectSeq(NonEmptySegmentsOf(path), NotDotSegment)
    IN  [i \in 1..Len(kept) |-> EncodeSegment(kept[i])]

\* B's segments without the one empty segment a final slash makes
BaseSegmentsLessFinalSlash(base) ==
    LET n == Len(base.segments)
    IN  IF base.segments[n] = "" THEN SubSeq(base.segments, 1, n - 1)
        ELSE base.segments

\* the path "/" is written as the one empty segment
AsUrlPath(segs) == IF segs = <<>> THEN <<"">> ELSE segs

\* C1, as claimed: for every base URL B that can take path segments and every
\* relative path P, the URL build_url returns has B's path segments followed by
\* the non-empty '/'-separated segments of P, in order (empty segments, which
\* only reflect slashes, are left out of the comparison).
C1_AsClaimed ==
    (u_pc = "done" /\ ~u_base.cannot_be_a_base) =>
        /\ u_result.ok
        /\ SelectNonEmpty(u_result.value.segments)
             = SelectNonEmpty(u_base.segments) \o NonEmptySegmentsOf(u_path)

\* C1, amended: build_url returns a URL whose path segments are B's path
\* segments, less one empty segment made by a final slash, followed by the
\* non-empty '/'-separated segments of P other than "." and "..", each
\* percent-encoded, in order; nothing else of B changes; and the result is the
\* same with one more slash in front of P, behind it or next to another slash,
\* and with a final slash added to B.
C1_BuildUrlSegments ==
    (u_pc = "done" /\ ~u_base.cannot_be_a_base) =>
        /\ u_result.ok
        /\ u_result.value.segments
             = AsUrlPath(BaseSegmentsLessFinalSlash(u_base) \o AppendedSegments(u_path))
        /\ u_result.value = [u_base EXCEPT !.segments = u_result.value.segments]
        /\ u_respelt => u_result = u_first

\* C1 witness: a path with a leading, a doubled and a trailing slash was built
\* onto a base URL that ends in a slash, after the call without them.
C1_Witness ==
    /\ u_pc = "done"
    /\ u_respelt
    /\ u_base.segments = <<"v1", "issuing", "">>
    /\ u_path \in {"/a/", "a//", "//a"}
    /\ u_result.ok
    /\ u_result.value.segments = <<"v1", "issuing", "a">>

(***************************************************************************)
(* C2 - C10: the calls of one client.                                      *)
(***************************************************************************)
\* sub occurs in s
Contains(s, sub) ==
    \E i \in 1..(Len(s) - Len(sub) + 1) : SubSeq(s, i, i + Len(sub) - 1) = sub

JsonHelpers == AsyncJsonHelpers \cup BlockingJsonHelpers

Sent == request # NoRequest

\* the call was answered and has returned, and the body could be read
Answered == pc = "returned" /\ response # NoResponse /\ response.readable

\* C2, as claimed: list_users and list_users_blocking with cursor = None and
\* limit = Some(20) issue a GET whose URL has a path ending in the segment
\* "users" and the query string "limit=20", with company_id = None, and a
\* query string that also contains "companyId=X", with company_id = Some(X).
C2_AsClaimed ==
    \A p \in ListUsersParamsSet :
        (/\ Sent
         /\ call \in {list_users(p), list_users_blocking(p)}
         /\ p.cursor = None
         /\ p.limit = Some(20)) =>
            /\ request.method = "GET"
            /\ Last(request.url.segments) = "users"
            /\ p.company_id = None => request.url.query = "limit=20"
            /\ p.company_id # None =>
                  /\ Contains(request.url.query, "limit=20")
                  /\ Contains(request.url.query, "companyId=" \o p.company_id.v)

\* C3, as claimed: with the Dev or Production environment get_user(id) issues
\* its GET to the path /v1/issuing/users/{id}: the base segments, then "users",
\* then the id, and no other segment.
C3_AsClaimed ==
    \A id \in Uuids :
        (/\ Sent
         /\ call = get_user(id)
         /\ config.base_url \in { Environment_base_url([tag |-> "Dev"]),
                                  Environment_base_url([tag |-> "Production"]) }) =>
            /\ request.method = "GET"
            /\ request.url.segments = <<"v1", "issuing", "users", id>>

\* the values the caller of get_with_headers or put_with_headers passes under
\* a header name
CallerHeaderValues(name) ==
    LET hits == SelectSeq(call.headers, LAMBDA h : HeaderName(h[1]) = name)
    IN  [i \in 1..Len(hits) |-> hits[i][2]]

\* C4, as claimed: every HTTP request sent by any helper carries Accept:
\* application/json, a User-Agent equal to the configured user agent and an
\* Api-Key equal to the configured key.
C4_AsClaimed ==
    Sent =>
        /\ \E i \in 1..Len(request.headers) :
              request.headers[i] = <<"accept", "application/json">>
        /\ \E i \in 1..Len(request.headers) :
              request.headers[i] = <<"user-agent", config.user_agent>>
        /\ \E i \in 1..Len(request.headers) :
              request.headers[i] = <<"api-key", auth_config.api_key>>

\* C4, amended: every HTTP request sent by any helper carries an Api-Key header
\* whose first value is the configured key; it carries exactly Accept:
\* application/json and the configured User-Agent, unless the caller of
\* get_with_headers or put_with_headers passes a header of that name, and then
\* the request carries the caller's values under that name and not the default.
C4_RequestHeaders ==
    Sent =>
        /\ HeaderValues(request.headers, "api-key") # <<>>
        /\ HeaderValues(request.headers, "api-key")[1] = auth_config.api_key
        /\ HeaderValues(request.headers, "accept") =
              (IF CallerHeaderValues("accept") # <<>> THEN CallerHeaderValues("accept")
               ELSE <<"application/json">>)
        /\ HeaderValues(request.headers, "user-agent") =
              (IF CallerHeaderValues("user-agent") # <<>>
               THEN CallerHeaderValues("user-agent")
               ELSE <<config.user_agent>>)

\* C4 witness: put_multipart, which builds its headers itself, has sent its
\* request with the three headers.
C4_Witness ==
    /\ Sent
    /\ call.helper = "put_multipart"
    /\ config.user_agent = "my-app/1.0"
    /\ HeaderValues(request.headers, "accept") = <<"application/json">>
    /\ HeaderValues(request.headers, "user-agent") = <<"my-app/1.0">>
    /\ HeaderValues(request.headers, "api-key") = <<"key-2">>

\* the target types no JSON null (and no empty object) decodes to
NotNullable == {"User", "VecUser", "CardSecrets", "CardPin"}

\* C5: when a call decoded by the response-interpretation routine receives
\* status 202 with an empty body, the result is the target type decoded from
\* {}, or else from null, and the validation error only if both fail: a Value
\* is the empty object, a unit is (), an Option is None, a struct of optional
\* fields has them all absent, a User is the validation error; so
\* create_company_contract and create_user_contract return Ok(()).
C5_AcceptedEmptyBody ==
    (Answered /\ call.helper \in JsonHelpers /\ response.status = 202
       /\ response.body = "") =>
        /\ result =
              ApiReturn(call,
                        IF from_str(call.T, "{}").ok THEN from_str(call.T, "{}")
                        ELSE IF from_str(call.T, "null").ok THEN from_str(call.T, "null")
                        ELSE EmptyResponseBody)
        /\ (call.T = "Value" /\ ~call.discard) => result = Ok(JEmptyObj)
        /\ call.T = "Unit" => result = Ok(Unit)
        /\ call.T = "OptionUser" => result = Ok(None)
        /\ call.T = "UpdateUserRequest" =>
              result = Ok([first_name |-> None, last_name |-> None, email |-> None,
                           is_active |-> None])
        /\ call.T \in NotNullable => result = EmptyResponseBody
        /\ call.api \in {"create_company_contract", "create_user_contract",
                         "create_company_contract_blocking",
                         "create_user_contract_blocking"} => result = Ok(Unit)

\* C5 witness: create_company_contract was answered 202 with an empty body and
\* returned Ok(()).
C5_Witness ==
    /\ Answered
    /\ call.api = "create_company_contract"
    /\ response.status = 202
    /\ response.body = ""
    /\ result = Ok(Unit)

\* C6: when a call decoded by the response-interpretation routine receives a
\* 2xx status other than 202 with an empty body, the body is decoded as null:
\* unit gives (), an Option gives None, a Value gives null, and a type that
\* cannot be null (User) gives the validation error "Empty response body"; a
\* non-empty body is decoded as JSON into the target type.
C6_SuccessBody ==
    (Answered /\ call.helper \in JsonHelpers /\ is_success(response.status)
       /\ response.status # 202) =>
        IF response.body = ""
        THEN /\ call.T = "Unit" => result = Ok(Unit)
             /\ call.T = "OptionUser" => result = Ok(None)
             /\ (call.T = "Value" /\ ~call.discard) => result = Ok(JNull)
             /\ call.T \in NotNullable \cup {"UpdateUserRequest"} =>
                   result = Err(ValidationError("Empty response body"))
        ELSE /\ result =
                   ApiReturn(call,
                             IF from_str(call.T, response.body).ok
                             THEN from_str(call.T, response.body)
                             ELSE Err(DeserializationError))
             /\ (call.T = "User" /\ response.body = UserText) =>
                   /\ result.ok
                   /\ result.value.email = "ada@example.com"
             /\ (call.T = "User" /\ response.body = "{}") =>
                   result = Err(DeserializationError)

\* C6 witness: get_user was answered 204 with an empty body and returned the
\* validation error.
C6_Witness ==
    /\ Answered
    /\ call.api = "get_user"
    /\ response.status = 204
    /\ response.body = ""
    /\ result = Err(ValidationError("Empty response body"))

\* what the bodies of the model that have the structured error shape parse to
StructuredErrors ==
    [b \in {NotFoundText, DeniedText, "{}", UserText} |->
        CASE b = NotFoundText ->
                [message |-> Some("not found"), code |-> None, details |-> None]
          [] b = DeniedText ->
                [message |-> Some("denied"), code |-> Some("E42"),
                 details |-> Some(JObj([field |-> JStr("id")]))]
          [] OTHER -> [message |-> None, code |-> None, details |-> None]]

\* C7: for the calls decoded by the response-interpretation routine, a non-2xx
\* response whose body parses as the structured error shape yields
\* RainError::ApiError with exactly the status of the response and the parsed
\* message, code and details; 404 with {"message":"not found"} yields status
\* 404 and message "not found".
C7_ApiError ==
    (Answered /\ call.helper \in JsonHelpers /\ ~is_success(response.status)) =>
        /\ response.body \in DOMAIN StructuredErrors =>
              result = Err(ApiError(response.status, StructuredErrors[response.body]))
        /\ from_str_ApiErrorResponse(response.body).ok =>
              /\ ~result.ok
              /\ result.err.kind = "ApiError"
              /\ result.err.status = response.status
        /\ (response.status = 404 /\ response.body = NotFoundText) =>
              /\ result.err.status = 404
              /\ result.err.response.message = Some("not found")

\* C7 witness: get_user_blocking was answered 404 {"message":"not found"} and
\* returned the API error.
C7_Witness ==
    /\ Answered
    /\ call.api = "get_user_blocking"
    /\ response.status = 404
    /\ response.body = NotFoundText
    /\ result.err.kind = "ApiError"

\* C8, as claimed: a non-2xx response whose body does not parse as the
\* structured error shape yields, in the async and in the blocking path, an
\* opaque error that contains the status and the response text cut to at most
\* TruncateLimit characters; a text of at most TruncateLimit characters is
\* contained in full.
C8_AsClaimed ==
    (/\ Answered
     /\ call.helper \in JsonHelpers
     /\ ~is_success(response.status)
     /\ ~from_str_ApiErrorResponse(response.body).ok) =>
        /\ ~result.ok
        /\ result.err.kind = "Other"
        /\ Contains(result.err.msg, ToString(response.status))
        /\ IF Len(response.body) <= TruncateLimit
           THEN Contains(result.err.msg, response.body)
           ELSE /\ Contains(result.err.msg, SubSeq(response.body, 1, TruncateLimit))
                /\ ~Contains(result.err.msg, SubSeq(response.body, 1, TruncateLimit + 1))

\* C9, as claimed: every async operation has a blocking counterpart, and a
\* blocking call returns, on the same arguments and the same response, what the
\* async response interpretation returns (the same value, or the same error
\* with the same content).
C9_AsClaimed ==
    /\ (pc # "idle" /\ call.api \in DOMAIN BlockingCounterpart) =>
          BlockingCounterpart[call.api] # "<none>"
    /\ (Answered /\ call.helper \in BlockingJsonHelpers) =>
          result = ApiReturn(call, handle_response(call.T, response.status,
                                                   response.url, response.body))

\* C10, as claimed: delete and delete_blocking answered by a non-2xx response
\* whose body parses as the structured error shape return RainError::ApiError
\* with the status of the response (delete_user or delete_key answered 404
\* {"message":"not found"} returns an API error with status 404).
C10_AsClaimed ==
    (/\ Answered
     /\ call.helper \in {"delete", "delete_blocking"}
     /\ ~is_success(response.status)
     /\ from_str_ApiErrorResponse(response.body).ok) =>
        /\ ~result.ok
        /\ result.err.kind = "ApiError"
        /\ result.err.status = response.status

(***************************************************************************)
(* Calls issued at once through one client. RainClient (client.rs 59-84)   *)
(* holds config, auth_config and the transport clients; every method takes *)
(* &self, and the url, the builder and the response of a call are locals   *)
(* of that call.                                                           *)
(***************************************************************************)
\* the helper a call runs up to send()
HelperCall(self, c) ==
    CASE c.helper = "get" -> get(self, c.path)
      [] c.helper = "post" -> post(self, c.path, c.body)
      [] c.helper = "get_bytes_blocking" -> get_bytes_blocking(self, c.path)
      [] c.helper = "delete_blocking" -> delete_blocking(self, c.path)

\* what the helper makes of the response of its send()
HelperTail(c, resp) ==
    IF c.helper \in AsyncJsonHelpers
    THEN (IF resp.readable THEN handle_response(c.T, resp.status, resp.url, resp.body)
          ELSE Err(HttpError("body")))
    ELSE IF c.helper \in BlockingJsonHelpers
    THEN (IF resp.readable THEN handle_blocking_response(c.T, resp.status, resp.body)
          ELSE Err(HttpError("body")))
    ELSE IF c.helper \in {"get_bytes", "get_bytes_blocking"} THEN GetBytesTail(resp)
    ELSE StatusOnlyTail(resp)

\* the calls the call sites of SpecConc make
TaskInvocations ==
    UNION { { get_user(id), delete_key_blocking(id),
              create_user_contract(id, UserContractRequest) } : id \in Uuids }
    \cup {Invocation("get_bytes_blocking", "get_bytes_blocking",
                     "/transactions/t1/receipt", "Bytes")}

\* the answers of the server of SpecConc: status and body
TaskAnswers == {<<200, UserText>>, <<404, NotFoundText>>, <<204, "">>}

ConcInit ==
    /\ \E setup \in ClientSetups :
          LET client == RainClient_new(Config_new(setup[1], setup[2]), with_api_key(setup[3]))
          IN  /\ client.ok
              /\ config = client.value.config
              /\ auth_config = client.value.auth_config
    /\ pc = "off"
    /\ call = NoCall
    /\ request = NoRequest
    /\ response = NoResponse
    /\ result = NoResult
    /\ sends = 0
    /\ UrlIdle
    /\ TasksIdle
    /\ DecodeIdle

\* a call site calls a method of the shared client
TaskStart(t) ==
    /\ tasks[t].pc = "idle"
    /\ \E c \in TaskInvocations :
          LET prepared == HelperCall(Self, c)
          IN  tasks' = [tasks EXCEPT ![t] =
                IF ~prepared.ok
                THEN [IdleTask EXCEPT !.pc = "returned", !.call = c,
                                      !.result = ApiReturn(c, prepared)]
                ELSE IF prepared.value.builder.error
                THEN [IdleTask EXCEPT !.pc = "returned", !.call = c,
                                      !.result = ApiReturn(c, Err(HttpError("builder")))]
                ELSE [IdleTask EXCEPT !.pc = "in_flight", !.call = c,
                        !.request = WireRequest(prepared.value.builder,
                                                prepared.value.defaults)]]
    /\ UNCHANGED <<c_vars, u_vars, d_vars>>

\* a response that every call waiting on the client takes for its own
Deliver_shared(ts, t, resp) ==
    [u \in DOMAIN ts |->
        IF ts[u].pc = "in_flight" THEN [ts[u] EXCEPT !.response = resp, !.pc = "received"]
        ELSE ts[u]]

\* send() returns the response to the call that sent the request
\* (let response = builder.send().await?)
Deliver(ts, t, resp) == [ts EXCEPT ![t].response = resp, ![t].pc = "received"]

\* the server answers the request of one call
TaskAnswered(t) ==
    /\ tasks[t].pc = "in_flight"
    /\ \E answer \in TaskAnswers :
          tasks' = Deliver(tasks, t, [status |-> answer[1], body |-> answer[2],
                                      url |-> tasks[t].request.url, readable |-> TRUE])
    /\ UNCHANGED <<c_vars, u_vars, d_vars>>

\* the send() of one call fails
TaskTransportFails(t) ==
    /\ tasks[t].pc = "in_flight"
    /\ tasks' = [tasks EXCEPT ![t].pc = "returned",
                   ![t].result = ApiReturn(tasks[t].call, Err(HttpError("transport")))]
    /\ UNCHANGED <<c_vars, u_vars, d_vars>>

\* one call interprets its response and returns
TaskFinish(t) ==
    /\ tasks[t].pc = "received"
    /\ tasks' = [tasks EXCEPT ![t].pc = "returned",
                   ![t].result = ApiReturn(tasks[t].call,
                                           HelperTail(tasks[t].call, tasks[t].response))]
    /\ UNCHANGED <<c_vars, u_vars, d_vars>>

\* the call site takes the result and is ready for its next call
TaskNext(t) ==
    /\ tasks[t].pc = "returned"
    /\ tasks' = [tasks EXCEPT ![t] = IdleTask]
    /\ UNCHANGED <<c_vars, u_vars, d_vars>>

ConcNext ==
    \E t \in TaskIds :
        \/ TaskStart(t)
        \/ TaskAnswered(t)
        \/ TaskTransportFails(t)
        \/ TaskFinish(t)
        \/ TaskNext(t)

SpecConc == ConcInit /\ [][ConcNext]_vars

(***************************************************************************)
(* Decoding on its own: a JSON payload, described by what it holds, is     *)
(* decoded into a target type.                                             *)
(***************************************************************************)
\* the fields of a payload that carries everything a variant requires
SpendFields ==
    [amount |-> JNum(1250), currency |-> JStr("USD"), receipt |-> JBool(FALSE),
     merchantName |-> JStr("Cafe"), merchantCategory |-> JStr("Food"),
     merchantCategoryCode |-> JStr("5812"),
     cardId |-> JStr("0a0a0a0a-0000-4000-8000-000000000001"),
     cardType |-> JStr("virtual"),
     userId |-> JStr("0a0a0a0a-0000-4000-8000-000000000001"),
     userFirstName |-> JStr("Ada"), userEmail |-> JStr("ada@example.com"),
     status |-> JStr("completed"), authorizedAt |-> JStr("2024-01-01T00:00:00Z")]

CollateralFields ==
    [amount |-> JNum(100), currency |-> JStr("USDC"), chainId |-> JNum(1),
     walletAddress |-> JStr("0xabc"), transactionHash |-> JStr("0xdef")]

PaymentFields == [amount |-> JNum(500), currency |-> JStr("USD"), status |-> JStr("pending")]

FeeFields == [amount |-> JNum(3)]

TransactionShapes == {"spend", "collateral", "payment", "fee"}

ShapeFields(shape) ==
    CASE shape = "spend" -> SpendFields
      [] shape = "collateral" -> CollateralFields
      [] shape = "payment" -> PaymentFields
      [] shape = "fee" -> FeeFields

\* the values of "type" the payloads carry; "<missing>" leaves the field out,
\* "<number>" and "<null>" give it a value that is no string
TransactionTags ==
    {"spend", "collateral", "payment", "fee", "refund", "Spend", "", "<missing>",
     "<number>", "<null>"}

TagField(tag) ==
    CASE tag = "<missing>" -> <<>>
      [] tag = "<number>" -> [type |-> JNum(1)]
      [] tag = "<null>" -> [type |-> JNull]
      [] OTHER -> [type |-> JStr(tag)]

\* the JSON object a Transaction payload of the model stands for
TransactionJson(p) ==
    JObj([id |-> JStr("0a0a0a0a-0000-4000-8000-000000000001")]
         @@ TagField(p.type) @@ ShapeFields(p.shape))

TransactionPayloads == [type : TransactionTags, shape : TransactionShapes]

SignatureTypes == {"PaymentSignatureResponse", "WithdrawalSignatureResponse"}

\* a signature payload: what its status, retryAfter and signature fields hold
SignaturePayloads ==
    [status : {"pending", "ready", "expired", "<missing>"},
     retry_after : {"<missing>", "number", "string"},
     signature : {"<missing>", "object", "incomplete", "<null>"}]

\* the JSON object a signature payload of the model stands for
SignatureJson(p) ==
    JObj((IF p.status = "<missing>" THEN <<>> ELSE [status |-> JStr(p.status)])
         @@ (CASE p.retry_after = "<missing>" -> <<>>
               [] p.retry_after = "number" -> [retryAfter |-> JNum(5)]
               [] p.retry_after = "string" -> [retryAfter |-> JStr("5")])
         @@ (CASE p.signature = "<missing>" -> <<>>
               [] p.signature = "object" ->
                     [signature |-> JObj([data |-> JStr("0x01"), salt |-> JStr("0x02")])]
               [] p.signature = "incomplete" ->
                     [signature |-> JObj([data |-> JStr("0x01")])]
               [] p.signature = "<null>" -> [signature |-> JNull]))

\* the JSON value of a payload of the model
PayloadJson(T, p) ==
    CASE T = "Transaction" -> TransactionJson(p)
      [] T \in SignatureTypes -> SignatureJson(p)

\* T::deserialize for the types decoded on their own
Deserialize(T, j) ==
    CASE T = "Transaction" -> FromJson_Transaction(j)
      [] T = "PaymentSignatureResponse" -> FromJson_PaymentSignatureResponse(j)
      [] T = "WithdrawalSignatureResponse" -> FromJson_WithdrawalSignatureResponse(j)

DecodeInit ==
    /\ ClientIdle
    /\ UrlIdle
    /\ TasksIdle
    /\ d_pc = "ready"
    /\ \/ d_T = "Transaction" /\ d_payload \in TransactionPayloads
       \/ d_T \in SignatureTypes /\ d_payload \in SignaturePayloads
    /\ d_result = NotCalled

\* serde_json::from_value::<T>(payload)
Decode ==
    /\ d_pc = "ready"
    /\ d_result' = Deserialize(d_T, PayloadJson(d_T, d_payload))
    /\ d_pc' = "done"
    /\ UNCHANGED <<d_T, d_payload, c_vars, u_vars, t_vars>>

DecodeNext == Decode

SpecDecode == DecodeInit /\ [][DecodeNext]_vars

(***************************************************************************)
(* C11 - C20.                                                              *)
(***************************************************************************)
BodyHelpers ==
    {"post", "patch", "put", "put_with_headers", "post_blocking", "patch_blocking",
     "put_blocking"}

\* C11: in post, patch, put and put_with_headers, async and blocking, the JSON
\* body is serialized before any request is sent: a request on the wire carries
\* the serialized bytes, and when serialization fails the call returns an error
\* and has issued no HTTP request.
C11_SerializedBeforeSend ==
    call.helper \in BodyHelpers =>
        /\ Sent =>
              /\ call.body # Unserializable
              /\ call.body = ContractRequest =>
                    request.body = "{\"chainId\":1,\"ownerAddress\":\"0xabc\"}"
        /\ (pc # "idle" /\ call.body = Unserializable) =>
              /\ pc = "returned"
              /\ ~result.ok
              /\ sends = 0
              /\ request = NoRequest
              /\ response = NoResponse

\* C11 witness: post_blocking was called with a body that does not serialize
\* and has returned the error without a request.
C11_Witness ==
    /\ pc = "returned"
    /\ call.helper = "post_blocking"
    /\ call.body = Unserializable
    /\ result = Err(DeserializationError)
    /\ sends = 0

TransportFailure ==
    /\ sends >= 1
    /\ response = NoResponse \/ ~response.readable

\* C13, as claimed: RainError::HttpError is returned for transport-level
\* failures only, never for a non-2xx response nor for a local validation
\* failure (invalid URL, invalid header value such as an Api-Key or SessionId
\* that is no legal header value, JSON encode or decode error); and no
\* transport failure is reported with another kind.
C13_AsClaimed ==
    (pc = "returned" /\ ~result.ok) =>
        (result.err.kind = "HttpError" <=> TransportFailure)

UploadApis == {"upload_company_document", "upload_ubo_document", "upload_user_document"}

\* C14, as claimed: upload_company_document, upload_ubo_document and
\* upload_user_document return RainError::ValidationError, and issue no HTTP
\* request, when the file at params.file_path cannot be read; when it can, the
\* request sent carries the bytes read, and the call issues one request.
C14_AsClaimed ==
    (call.api \in UploadApis /\ pc # "idle") =>
        IF call.params.file_path \notin DOMAIN FileSystem
        THEN /\ pc = "returned"
             /\ sends = 0
             /\ ~result.ok
             /\ result.err.kind = "ValidationError"
        ELSE /\ sends <= 1
             /\ Sent => request.body.multipart.document.bytes
                            = FileSystem[call.params.file_path]

Is2xx(status) == status >= 200 /\ status <= 299

\* C15: get_bytes and get_bytes_blocking never parse the body as JSON: on every
\* 2xx status they return exactly the bytes of the response body (an empty
\* body gives an empty byte vector), and on every non-2xx status they return
\* an error whose message contains the response body text.
C15_RawBytes ==
    (Answered /\ call.helper \in {"get_bytes", "get_bytes_blocking"}) =>
        IF Is2xx(response.status)
        THEN /\ result = Ok([bytes |-> response.body])
             /\ response.body = "" => result.value.bytes = ""
        ELSE /\ ~result.ok
             /\ result.err.kind = "Other"
             /\ Contains(result.err.msg, response.body)

\* C15 witness: get_bytes_blocking was answered 200 with a body that is no
\* JSON and returned its bytes.
C15_Witness ==
    /\ Answered
    /\ call.helper = "get_bytes_blocking"
    /\ response.status = 200
    /\ response.body = InternalErrorText
    /\ result = Ok([bytes |-> InternalErrorText])

NoContentHelpers == {"put_multipart_no_content", "put_multipart_blocking_no_content"}

\* C16: put_multipart_no_content and put_multipart_blocking_no_content return
\* Ok(()) for every 2xx status whatever the body contains, the body being
\* neither read nor parsed, and an error for every non-2xx status; they return
\* nothing but success or failure.
C16_NoContent ==
    (pc = "returned" /\ call.helper \in NoContentHelpers) =>
        /\ result.ok => result = Ok(Unit)
        /\ response # NoResponse =>
              IF Is2xx(response.status) THEN result = Ok(Unit) ELSE ~result.ok

\* C16 witness: put_multipart_no_content was answered 200 with a JSON body and
\* returned Ok(()).
C16_Witness ==
    /\ pc = "returned"
    /\ call.helper = "put_multipart_no_content"
    /\ response.status = 200
    /\ response.body = UserText
    /\ result = Ok(Unit)

\* what a call returns when it runs alone on the client and the server
\* answers it with resp
Alone(c, resp) == ApiReturn(c, HelperTail(c, resp))

C18_AsClaimed ==
    /\ (Sent /\ call.headers = <<>>) =>
          HeaderValues(request.headers, "api-key") = <<auth_config.api_key>>
    /\ (pc = "returned" /\ call.headers = <<>> /\ sends = 0) =>
          result # ApiReturn(call, Err(HttpError("builder")))

CardSessionApis == {"get_card_secrets", "get_card_pin", "update_card_pin"}

\* the last n segments of the URL requested
LastSegments(n) ==
    SubSeq(request.url.segments, Len(request.url.segments) - n + 1,
           Len(request.url.segments))

\* C19: the request of get_card_secrets, get_card_pin and update_card_pin goes
\* to cards/{card_id}/secrets or cards/{card_id}/pin (and from there to where
\* the server redirects it) and carries one SessionId
\* header, whose value is the session_id argument, and the Api-Key header; a
\* request of any other call carries a SessionId header only when the caller
\* handed one to get_with_headers or put_with_headers itself.
C19_SessionHeader ==
    Sent =>
        /\ \A id \in Uuids, sid \in SessionIds :
              /\ call = get_card_secrets(id, sid) =>
                    /\ HeaderValues(request.headers, "sessionid") = <<sid>>
                    /\ sends = 1 => LastSegments(3) = <<"cards", id, "secrets">>
                    /\ request.method = "GET"
              /\ call = get_card_pin(id, sid) =>
                    /\ HeaderValues(request.headers, "sessionid") = <<sid>>
                    /\ sends = 1 => LastSegments(3) = <<"cards", id, "pin">>
                    /\ request.method = "GET"
              /\ call = update_card_pin(id, PinRequest, sid) =>
                    /\ HeaderValues(request.headers, "sessionid") = <<sid>>
                    /\ sends = 1 => LastSegments(3) = <<"cards", id, "pin">>
                    /\ request.method = "PUT"
        /\ call.api \in CardSessionApis =>
              /\ Len(HeaderValues(request.headers, "sessionid")) = 1
              /\ auth_config.api_key \in
                    {HeaderValues(request.headers, "api-key")[i] :
                        i \in 1..Len(HeaderValues(request.headers, "api-key"))}
        /\ (call.api \notin CardSessionApis /\ HasHeader(request.headers, "sessionid")) =>
              /\ call.api \in {"get_with_headers", "put_with_headers"}
              /\ \E i \in 1..Len(call.headers) : HeaderName(call.headers[i][1]) = "sessionid"

\* C19 witness: update_card_pin with session id "sess-2" has its PUT on the
\* wire with the SessionId and Api-Key headers.
C19_Witness ==
    /\ pc = "in_flight"
    /\ call.api = "update_card_pin"
    /\ request.method = "PUT"
    /\ HeaderValues(request.headers, "sessionid") = <<"sess-2">>
    /\ HeaderValues(request.headers, "api-key") = <<auth_config.api_key>>

\* the entries the query string of list_transactions is said to hold for params
ClaimedQueryEntries(p) ==
    (IF p.company_id # None THEN {"companyId=" \o p.company_id.v} ELSE {})
    \cup (IF p.cursor # None THEN {"cursor=" \o p.cursor.v} ELSE {})
    \cup (IF p.limit # None THEN {"limit=" \o ToString(p.limit.v)} ELSE {})
    \cup (IF p.authorized_after # None THEN {"authorizedAfter="} ELSE {})
    \cup (IF p.transaction_type # None
          THEN {"type=" \o p.transaction_type.v[i] : i \in 1..Len(p.transaction_type.v)}
          ELSE {})

\* C20, as claimed: list_transactions and list_transactions_blocking issue a
\* GET to the transactions path whose query string holds one entry for every
\* Some field of params, every type of transaction_type included, and no key
\* of a None field; with every field None the URL has no query string.
C20_AsClaimed ==
    \A p \in ListTransactionsParamsSet :
        (/\ pc \in {"in_flight", "received", "returned"}
         /\ sends <= 1
         /\ call \in {list_transactions(p), list_transactions_blocking(p)}) =>
            /\ Sent
            /\ request.method = "GET"
            /\ Last(request.url.segments) = "transactions"
            /\ \A entry \in ClaimedQueryEntries(p) : Contains(request.url.query, entry)
            /\ p.limit = None => ~Contains(request.url.query, "limit=")
            /\ p.cursor = None => ~Contains(request.url.query, "cursor=")
            /\ p = NoTransactionsParams => request.url.query = NoQuery

(***************************************************************************)
(* C21 - C30.                                                              *)
(***************************************************************************)
\* the variant a value of "type" names
VariantOf(tag) ==
    CASE tag = "spend" -> "Spend"
      [] tag = "collateral" -> "Collateral"
      [] tag = "payment" -> "Payment"
      [] tag = "fee" -> "Fee"
      [] OTHER -> "<none>"

\* C21: decoding a Transaction takes the variant from the "type" field alone:
\* a payload whose "type" names a variant and which carries that variant's
\* fields decodes to that variant; whatever fields it carries it never decodes
\* to another variant than the one "type" names; and a payload whose "type" is
\* missing or is any other value does not decode.
C21_VariantByType ==
    (d_pc = "done" /\ d_T = "Transaction") =>
        /\ (VariantOf(d_payload.type) # "<none>" /\ d_payload.shape = d_payload.type) =>
              /\ d_result.ok
              /\ d_result.value.variant = VariantOf(d_payload.type)
        /\ d_result.ok => d_result.value.variant = VariantOf(d_payload.type)
        /\ VariantOf(d_payload.type) = "<none>" =>
              /\ ~d_result.ok
              /\ d_result.err.kind = "DeserializationError"

\* C21 witness: a payload with "type":"payment" that carries the spend fields
\* was decoded to the Payment variant.
C21_Witness ==
    /\ d_pc = "done"
    /\ d_T = "Transaction"
    /\ d_payload = [type |-> "payment", shape |-> "spend"]
    /\ d_result.ok
    /\ d_result.value.variant = "Payment"

\* C22, as claimed: of the payloads with a status the enum knows, one that
\* holds a numeric retryAfter and no signature field decodes to Pending, and
\* every one that holds a signature object (data and salt) decodes to Ready.
C22_AsClaimed ==
    (d_pc = "done" /\ d_T \in SignatureTypes /\ d_payload.status \in {"pending", "ready"}) =>
        /\ (d_payload.retry_after = "number" /\ d_payload.signature = "<missing>") =>
              /\ d_result.ok
              /\ d_result.value.variant = "Pending"
        /\ d_payload.signature = "object" =>
              /\ d_result.ok
              /\ d_result.value.variant = "Ready"

\* C23: on a client whose base URL cannot take path segments no call ever
\* puts a request on the wire; every verb helper returns the error of
\* build_url, "Cannot be a base URL", whatever else is wrong with the call,
\* and every resource method returns an error.
C23_CannotBeABase ==
    (config.base_url.cannot_be_a_base /\ pc # "idle") =>
        /\ pc = "returned"
        /\ request = NoRequest
        /\ response = NoResponse
        /\ sends = 0
        /\ ~result.ok
        /\ call.api = call.helper => result = Err(Other("Cannot be a base URL"))

\* C23 witness: on the client configured with a mailto: URL post_blocking,
\* called with a body that cannot be serialized, returned build_url's error
\* and sent nothing.
C23_Witness ==
    /\ config.base_url = MailtoUrl
    /\ pc = "returned"
    /\ call.api = "post_blocking"
    /\ call.body = Unserializable
    /\ result = Err(Other("Cannot be a base URL"))
    /\ request = NoRequest

\* C24: a call that decodes its response and is answered by a 2xx status, 202
\* included, with a body that is not empty and does not decode as JSON of the
\* type the call expects returns RainError::DeserializationError; and a call
\* returns the validation error "Empty response body" only when the body it
\* was answered with is empty.
C24_UndecodableBody ==
    /\ (/\ Answered
        /\ call.helper \in JsonHelpers
        /\ Is2xx(response.status)
        /\ response.body # ""
        /\ ~from_str(call.T, response.body).ok) =>
          /\ ~result.ok
          /\ result.err.kind = "DeserializationError"
    /\ (pc = "returned" /\ result = EmptyResponseBody) =>
          /\ response # NoResponse
          /\ response.readable
          /\ response.body = ""

\* C24 witness: get_blocking expecting a User was answered 202 with a text
\* that is no JSON and returned the deserialization error.
C24_Witness ==
    /\ Answered
    /\ call.helper = "get_blocking"
    /\ call.T = "User"
    /\ response.status = 202
    /\ response.body = InternalErrorText
    /\ result = Err(DeserializationError)

\* C25, as claimed: a non-2xx response whose body is {"message":"x","code":4001}
\* is returned as RainError::ApiError with the status of the response, the
\* message "x" and the code 4001.
C25_AsClaimed ==
    (/\ Answered
     /\ call.helper \in JsonHelpers
     /\ ~Is2xx(response.status)
     /\ response.body = NumericCodeText) =>
        /\ ~result.ok
        /\ result.err.kind = "ApiError"
        /\ result.err.status = response.status
        /\ result.err.response.message = Some("x")
        /\ result.err.response.code \in {Some("4001"), Some(4001)}

\* C26, as claimed: whatever the status and the body of the response, a call
\* that interprets it with handle_response or handle_blocking_response returns
\* a Result; none panics.
C26_AsClaimed ==
    (pc = "returned" /\ call.helper \in JsonHelpers) => result # Panicked

\* C27, as claimed: a call answered by a status outside 200-299 returns an
\* Err, whatever the body, and delete and delete_blocking return Ok(())
\* exactly when the status is 2xx.
C27_AsClaimed ==
    (pc = "returned" /\ response # NoResponse) =>
        /\ ~Is2xx(response.status) =>
              /\ ~result.ok
              /\ result # Panicked
        /\ call.helper \in {"delete", "delete_blocking"} =>
              (result = Ok(Unit) <=> Is2xx(response.status))

\* what the handler of the other flavour makes of the response the call in
\* progress was answered with, for the same target type
OtherFlavourResult ==
    ApiReturn(call,
              IF call.helper \in AsyncJsonHelpers
              THEN handle_blocking_response(call.T, response.status, response.body)
              ELSE handle_response(call.T, response.status, response.url, response.body))

\* C28, as claimed: for every status, body and target type handle_response
\* and handle_blocking_response agree: both return Ok with the same value, or
\* both return Err with the same RainError variant and, for an ApiError, the
\* same status.
C28_AsClaimed ==
    (Answered /\ call.helper \in JsonHelpers) =>
        /\ result # Panicked
        /\ OtherFlavourResult # Panicked
        /\ result.ok = OtherFlavourResult.ok
        /\ result.ok => result.value = OtherFlavourResult.value
        /\ ~result.ok =>
              /\ result.err.kind = OtherFlavourResult.err.kind
              /\ result.err.kind = "ApiError" =>
                    result.err.status = OtherFlavourResult.err.status

\* the methods that decode the response into a serde_json::Value and drop it
DiscardingApis ==
    {"update_transaction", "update_transaction_blocking", "update_card_pin",
     "create_company_contract", "create_company_contract_blocking",
     "create_user_contract", "create_user_contract_blocking"}

\* C29: a method that returns () after decoding the response into a JSON
\* value it drops, answered by a 2xx status, returns Ok(()) if and only if the
\* body is empty or is valid JSON, and returns the deserialization error when
\* the body is no JSON.
C29_DiscardedValue ==
    (Answered /\ call.api \in DiscardingApis /\ Is2xx(response.status)) =>
        /\ result = Ok(Unit) <=> (response.body = "" \/ ParseJson(response.body).ok)
        /\ (response.body # "" /\ ~ParseJson(response.body).ok) =>
              result = Err(DeserializationError)

\* C29 witness: update_transaction was answered 200 with a text that is no
\* JSON and returned the deserialization error.
C29_Witness ==
    /\ Answered
    /\ call.api = "update_transaction"
    /\ response.status = 200
    /\ response.body = InternalErrorText
    /\ result = Err(DeserializationError)

\* what the call c runs up to send() on the client self: the argument the
\* Call_ actions hand to Start
Prepare(self, c) ==
    IF c.api \in {"upload_company_document", "upload_ubo_document", "upload_user_document"}
    THEN LET form == IF c.api = "upload_company_document"
                     THEN build_company_document_form(c.params)
                     ELSE build_user_document_form(c.params)
         IN  IF form.ok THEN put_multipart(self, c.path, form.value) ELSE form
    ELSE IF c.api \in {"list_transactions", "list_transactions_blocking"}
    THEN LET query_string == to_string(c.params)
         IN  IF ~query_string.ok THEN query_string
             ELSE IF c.helper = "get" THEN get(self, c.path)
             ELSE get_blocking(self, c.path)
    ELSE CASE c.helper = "get" -> get(self, c.path)
           [] c.helper = "get_bytes" -> get_bytes(self, c.path)
           [] c.helper = "post" -> post(self, c.path, c.body)
           [] c.helper = "patch" -> patch(self, c.path, c.body)
           [] c.helper = "put" -> put(self, c.path, c.body)
           [] c.helper = "get_with_headers" -> get_with_headers(self, c.path, c.headers)
           [] c.helper = "put_with_headers" ->
                 put_with_headers(self, c.path, c.body, c.headers)
           [] c.helper = "delete" -> delete(self, c.path)
           [] c.helper = "put_multipart" -> put_multipart(self, c.path, c.form)
           [] c.helper = "put_multipart_no_content" ->
                 put_multipart_no_content(self, c.path, c.form)
           [] c.helper = "get_blocking" -> get_blocking(self, c.path)
           [] c.helper = "get_bytes_blocking" -> get_bytes_blocking(self, c.path)
           [] c.helper = "post_blocking" -> post_blocking(self, c.path, c.body)
           [] c.helper = "patch_blocking" -> patch_blocking(self, c.path, c.body)
           [] c.helper = "put_blocking" -> put_blocking(self, c.path, c.body)
           [] c.helper = "put_multipart_blocking_no_content" ->
                 put_multipart_blocking_no_content(self, c.path, c.form)
           [] c.helper = "delete_blocking" -> delete_blocking(self, c.path)

\* the API keys of the model that are legal header values
LegalKeys == {"key-1", "key-2"}

\* the request without its Api-Key header
WithoutApiKey(req) ==
    [req EXCEPT !.headers = SelectSeq(@, LAMBDA h : h[1] # "api-key")]

\* the URL a request reaches after n redirections of the server
RECURSIVE Hops(_, _)
Hops(url, n) == IF n = 0 THEN url ELSE Hops(Location(url), n - 1)

\* a run of the call c on the client self, with the redirections and the
\* answer of the server that the run in the state had: the request it has on
\* the wire and what it returns
RunOf(self, c) ==
    LET prepared == Prepare(self, c)
        first == WireRequest(prepared.value.builder, prepared.value.defaults)
        last == [first EXCEPT !.url = Hops(@, sends - 1)]
    IN  IF ~prepared.ok
        THEN [request |-> NoRequest, result |-> ApiReturn(c, prepared)]
        ELSE IF prepared.value.builder.error
        THEN [request |-> NoRequest, result |-> ApiReturn(c, Err(HttpError("builder")))]
        ELSE IF response = NoResponse
        THEN [request |-> last, result |-> ApiReturn(c, Err(HttpError("transport")))]
        ELSE [request |-> last,
              result |-> ApiReturn(c, HelperTail(c, [response EXCEPT !.url = last.url]))]

\* C30: the API key flows only into the Api-Key header.  Of two runs of the
\* same call that differ only in the API key, both keys being legal header
\* values, and whose requests are answered alike, the second sends the URL,
\* the body and every header but Api-Key that the first sent, sends its own key
\* in the place of the first run's key in Api-Key, and returns the value or the
\* error the first returned.
C30_KeyOnlyInHeader ==
    (pc \in {"in_flight", "returned"} /\ auth_config.api_key \in LegalKeys) =>
        \A k \in LegalKeys \ {auth_config.api_key} :
            LET mine == RunOf(Self, call).request
                theirs == RunOf([Self EXCEPT !.auth_config = with_api_key(k)], call)
            IN  /\ pc = "in_flight" => request = mine
                /\ (request = NoRequest) = (theirs.request = NoRequest)
                /\ request # NoRequest =>
                      /\ WithoutApiKey(theirs.request) = WithoutApiKey(request)
                      /\ HeaderValues(theirs.request.headers, "api-key") =
                            [HeaderValues(request.headers, "api-key") EXCEPT ![1] = k]
                /\ pc = "returned" => result = theirs.result

\* C30 witness: a call made with key-2 was sent with that key in Api-Key, was
\* answered 404 and returned an error, and the same call under key-1 sends a
\* different request.
C30_Witness ==
    /\ pc = "returned"
    /\ auth_config.api_key = "key-2"
    /\ Sent
    /\ HeaderValues(request.headers, "api-key") = <<"key-2">>
    /\ response # NoResponse
    /\ response.status = 404
    /\ ~result.ok
    /\ RunOf([Self EXCEPT !.auth_config = with_api_key("key-1")], call).request # request

====
